---------------------------- MODULE Spec2Model ----------------------------
(***************************************************************************)
(* MeshTalk: the hybrid crypto envelope (server/crypto.py) and the mesh    *)
(* relay (server/mesh_relay.py) as state machines.                         *)
(*                                                                         *)
(* Byte strings produced by the crypto primitives (random bytes, SHA-256   *)
(* and HMAC digests, KEM ciphertexts) are symbolic terms: two terms are    *)
(* the same bytes iff they are the same term.  `flip' counts bit changes   *)
(* applied to a term's bytes in transit (0 = as produced).                 *)
(***************************************************************************)
EXTENDS Integers, Sequences, FiniteSets, TLC

VARIABLES
    KYBER_AVAILABLE,   \* crypto.py:27-31, import-time flag
    NACL_AVAILABLE,    \* crypto.py:18-24, import-time flag
    \* ---- the crypto self-test harness (crypto.py __main__ and its callers)
    cr_pc,             \* "off" | "keygen" | "encrypt" | "wire" | "decrypt" | "done"
    cr_public_key,
    cr_private_key,
    cr_message,        \* the payload handed to encrypt_message
    cr_encrypted,      \* what encrypt_message returned (result record)
    cr_wire,           \* the envelope as it reaches decrypt_message
    cr_tamper,         \* what was done to the envelope in transit
    cr_decrypted,      \* what decrypt_message returned (result record)
    \* ---- the mesh (server/mesh_relay.py), one MeshRelay per host
    hosts,             \* the node ids whose MeshRelay process is part of the run
    batman_available,  \* MeshRelay.batman_available, per node
    nodes,             \* MeshRelay.nodes: node id -> (peer id -> Node)
    processed_messages,\* MeshRelay.processed_messages: node id -> set of ids
    started,           \* node id -> the receive and maintenance threads run
    sleeping,          \* node id -> the maintenance thread is in its 30 s sleep
    now,               \* time.time()
    network,           \* datagrams in flight between the hosts
    dispatched,        \* history: node id -> ids the node has dispatched
    flood,             \* history: the text A broadcast over the chain A-B-C
    last,              \* observation of the most recent handler run
    \* ---- voice processing (server/ai_voice.py) behind the routes of server/app.py
    ap,                \* ai_voice.audio_processor: the module's AudioProcessor
    bp,                \* ai_voice.buffer_processor.processor: its own AudioProcessor
    alone,             \* history: an AudioProcessor fed this caller's frames only
    vad_run,           \* history: the current run of frames into audio_processor
    vlast,             \* observation of the most recent voice call
    \* ---- the threads of one MeshRelay object and of the server around it
    running,           \* MeshRelay.running
    socket_open,       \* MeshRelay.socket has not been closed
    receiver_thread,   \* MeshRelay.receiver_thread: where it is in _receive_messages
    maintenance_thread,\* MeshRelay.maintenance_thread: where it is in _maintain_nodes
    mesh_relay_started,\* app.mesh_relay_started
    calls,             \* caller -> where it is in start() or stop()
    seen_at            \* history: message id -> time.time() when it was recorded

cryptoVars == <<cr_pc, cr_public_key, cr_private_key, cr_message,
                cr_encrypted, cr_wire, cr_tamper, cr_decrypted>>
configVars == <<KYBER_AVAILABLE, NACL_AVAILABLE>>
relayVars == <<hosts, batman_available, nodes, processed_messages, started,
               sleeping, now, network, dispatched, flood, last>>
voiceVars == <<ap, bp, alone, vad_run, vlast>>
threadVars == <<running, socket_open, receiver_thread, maintenance_thread,
                mesh_relay_started, calls, seen_at>>
vars == <<configVars, cryptoVars, relayVars, voiceVars, threadVars>>

-----------------------------------------------------------------------------
(* Bounds *)
MaxKeys == 2      \* keypairs drawn by the crypto harness
MaxRnd == 2       \* values of the per-call randomness (KEM coins, nonces)

(* AudioProcessor.__init__: the speech state and its two counters. *)
NewAudioProcessor == [is_speech |-> FALSE, speech_frames |-> 0, silence_frames |-> 0]

NoRun == [voiced |-> FALSE, len |-> 0]
VQuiet == [op |-> "", caller |-> "", valid |-> FALSE,
           before |-> FALSE, is_speech |-> FALSE, buffer |-> 0, returned |-> 0]

(* The voice module as imported: nothing processed yet. *)
VoiceIdle ==
    /\ ap = NewAudioProcessor
    /\ bp = NewAudioProcessor
    /\ alone = NewAudioProcessor
    /\ vad_run = NoRun
    /\ vlast = VQuiet

(* threading.Thread(target=...): created, not started. *)
NewThread == [pc |-> "new", launches |-> 0, slices |-> 0, size |-> 0, todo |-> {}, kept |-> {},
              added |-> {}]

(* The callers of start() and stop(): two HTTP requests, and a caller that *)
(* holds the relay object itself.                                          *)
CallerIds == {"r1", "r2", "api"}
NoCall == [pc |-> "idle", raised |-> FALSE]

(* MeshRelay.__init__ and the module level of app.py: running is True, the *)
(* socket is bound, both threads are created, nothing has been started.    *)
ThreadIdle ==
    /\ running = TRUE
    /\ socket_open = TRUE
    /\ receiver_thread = NewThread
    /\ maintenance_thread = NewThread
    /\ mesh_relay_started = FALSE
    /\ calls = [c \in CallerIds |-> NoCall]
    /\ seen_at = [id \in {} |-> 0]

-----------------------------------------------------------------------------
(* Results of a Python call: a value, or a raised exception. *)
Ok(v) == [ok |-> TRUE, val |-> v]
Raise(e) == [ok |-> FALSE, err |-> e]

Null == [ok |-> FALSE, err |-> "unset"]

NoKey == [alg |-> "None", part |-> "None", seed |-> 0]   \* Python None

(* CryptoFallback.generate_keypair: a NaCl keypair, or priv = 32 random    *)
(* bytes and pub = SHA-256(priv).  <<public, private>>.                    *)
CryptoFallback_generate_keypair(seed) ==
    IF NACL_AVAILABLE
    THEN <<[alg |-> "nacl", part |-> "public", seed |-> seed],
           [alg |-> "nacl", part |-> "private", seed |-> seed]>>
    ELSE <<[alg |-> "sha256_of_private", part |-> "public", seed |-> seed],
           [alg |-> "token_bytes", part |-> "private", seed |-> seed]>>

(* CrystalsKyber.generate_keypair / generate_keypair *)
CrystalsKyber_generate_keypair(seed) ==
    IF KYBER_AVAILABLE
    THEN <<[alg |-> "kyber", part |-> "public", seed |-> seed],
           [alg |-> "kyber", part |-> "private", seed |-> seed]>>
    ELSE CryptoFallback_generate_keypair(seed)

generate_keypair(seed) == CrystalsKyber_generate_keypair(seed)

(* base64.b64decode of a stored key: None is not bytes-like (TypeError). *)
KeyDecodes(key) == key.alg # "None"

(* CrystalsKyber.encapsulate: <<ciphertext, shared_secret>>.  With Kyber   *)
(* the pair comes from kyber.encap; without it the secret is os.urandom    *)
(* and the ciphertext is HMAC-SHA256(public_key, secret).                  *)
CrystalsKyber_encapsulate(public_key, r) ==
    IF ~KeyDecodes(public_key) THEN Raise("TypeError")
    ELSE IF KYBER_AVAILABLE
    THEN IF public_key.alg = "kyber" /\ public_key.part = "public"
         THEN Ok(<<[kind |-> "kyber_ct", seed |-> public_key.seed, r |-> r, flip |-> 0],
                   [kind |-> "kyber_ss", seed |-> public_key.seed, r |-> r, flip |-> 0]>>)
         ELSE Raise("KyberError")
    ELSE Ok(<<[kind |-> "hmac_sha256", seed |-> public_key.seed, r |-> r, flip |-> 0],
              [kind |-> "urandom", seed |-> 0, r |-> r, flip |-> 0]>>)

(* CrystalsKyber.decapsulate: kyber.decap recovers the encapsulated secret *)
(* from an intact ciphertext made for this key and an unrelated secret     *)
(* from any other; without Kyber the result is                             *)
(* SHA-256(ciphertext + private_key).                                      *)
CrystalsKyber_decapsulate(ciphertext, private_key) ==
    IF ~KeyDecodes(private_key) THEN Raise("TypeError")
    ELSE IF KYBER_AVAILABLE
    THEN IF private_key.alg # "kyber" THEN Raise("KyberError")
         ELSE IF /\ ciphertext.kind = "kyber_ct"
                 /\ ciphertext.flip = 0
                 /\ ciphertext.seed = private_key.seed
         THEN Ok([kind |-> "kyber_ss", seed |-> ciphertext.seed,
                  r |-> ciphertext.r, flip |-> 0])
         ELSE Ok([kind |-> "kyber_reject", seed |-> private_key.seed,
                  r |-> ciphertext.r, flip |-> ciphertext.flip])
    ELSE Ok([kind |-> "sha256", seed |-> private_key.seed,
             r |-> ciphertext.r, flip |-> ciphertext.flip])

(* XChaCha20Poly1305.encrypt: nonce + tag + ciphertext under `key'. *)
XChaCha20Poly1305_encrypt(message, key) ==
    [alg |-> IF NACL_AVAILABLE THEN "secretbox" ELSE "xor_hmac",
     key |-> key, pt |-> message, flip |-> 0]

(* XChaCha20Poly1305.decrypt: the plaintext when the tag verifies under    *)
(* `key', else None.                                                       *)
XChaCha20Poly1305_decrypt(encrypted_data, key) ==
    IF /\ encrypted_data.alg = (IF NACL_AVAILABLE THEN "secretbox" ELSE "xor_hmac")
       /\ encrypted_data.flip = 0
       /\ encrypted_data.key = key
    THEN [none |-> FALSE, val |-> encrypted_data.pt]
    ELSE [none |-> TRUE]

(* The envelope on the wire: a JSON object of base64 strings.  fmt is the  *)
(* set of keys the object carries ("garbage": not JSON at all).  The slack *)
(* fields are the unused low bits of the last base64 character of each     *)
(* field, 0 as b64encode writes them; b64decode does not read them.        *)
Envelope(fmt, kem, msg) ==
    [fmt |-> fmt, kem |-> kem, kemSlack |-> 0, msg |-> msg, msgSlack |-> 0]

NoBytes == [kind |-> "none", seed |-> 0, r |-> 0, flip |-> 0]

(* CryptoFallback.encrypt: a NaCl Box to the recipient key under an        *)
(* ephemeral key, or a SHA-256 keystream XOR keyed by the public key.      *)
CryptoFallback_encrypt(message, public_key_b64, r) ==
    IF ~KeyDecodes(public_key_b64) THEN Raise("TypeError")
    ELSE IF NACL_AVAILABLE
    THEN IF public_key_b64.alg = "nacl" /\ public_key_b64.part = "public"
         THEN Ok(Envelope("epk_ciphertext", NoBytes,
                   [alg |-> "box", key |-> public_key_b64, pt |-> message, flip |-> 0]))
         ELSE Raise("ValueError")
    ELSE Ok(Envelope("nonce_ciphertext", NoBytes,
              [alg |-> "xor", key |-> public_key_b64, pt |-> message, flip |-> 0]))

(* The payload that is the empty string. *)
EmptyText == [text |-> "", len |-> 0]
IsEmptyText(message) == message = EmptyText

(* CryptoFallback.decrypt *)
CryptoFallback_decrypt(encrypted_data, private_key_b64) ==
    IF encrypted_data.fmt = "garbage" THEN Raise("JSONDecodeError")
    ELSE IF NACL_AVAILABLE
    THEN IF encrypted_data.fmt # "epk_ciphertext" THEN Raise("KeyError")
         ELSE IF ~KeyDecodes(private_key_b64) THEN Raise("TypeError")
         ELSE IF private_key_b64.alg # "nacl" THEN Raise("ValueError")
         ELSE IF /\ encrypted_data.msg.alg = "box"
                 /\ encrypted_data.msg.flip = 0
                 /\ encrypted_data.msg.key.alg = "nacl"
                 /\ encrypted_data.msg.key.seed = private_key_b64.seed
         THEN Ok(encrypted_data.msg.pt)
         ELSE Raise("CryptoError")
    ELSE IF encrypted_data.fmt # "nonce_ciphertext" THEN Raise("KeyError")
         ELSE IF ~KeyDecodes(private_key_b64) THEN Raise("TypeError")
         \* no tag is checked: the XOR of no bytes is the empty string
         ELSE IF IsEmptyText(encrypted_data.msg.pt) THEN Ok(encrypted_data.msg.pt)
         \* keystream of private_key[:32]; encrypt used public_key[:32]
         ELSE IF encrypted_data.msg.flip = 0 /\ encrypted_data.msg.key = private_key_b64
         THEN Ok(encrypted_data.msg.pt)
         ELSE Raise("UnicodeDecodeError")

(* encrypt_message: KEM + AEAD, and on any exception CryptoFallback.encrypt *)
encrypt_message(message, recipient_public_key, r) ==
    LET enc == CrystalsKyber_encapsulate(recipient_public_key, r) IN
    IF enc.ok
    THEN Ok(Envelope("kyber_ciphertext_encrypted_message", enc.val[1],
                     XChaCha20Poly1305_encrypt(message, enc.val[2])))
    ELSE CryptoFallback_encrypt(message, recipient_public_key, r)

(* The try block of decrypt_message.  A field whose base64 text no longer *)
(* decodes (flip < 0) raises binascii.Error.                               *)
DecryptPrimary(encrypted_data, private_key) ==
    IF encrypted_data.fmt = "garbage" THEN Raise("JSONDecodeError")
    ELSE IF encrypted_data.fmt # "kyber_ciphertext_encrypted_message" THEN Raise("KeyError")
    ELSE IF encrypted_data.kem.flip < 0 \/ encrypted_data.msg.flip < 0
    THEN Raise("binascii.Error")
    ELSE LET dec == CrystalsKyber_decapsulate(encrypted_data.kem, private_key) IN
         IF ~dec.ok THEN dec
         ELSE LET pt == XChaCha20Poly1305_decrypt(encrypted_data.msg, dec.val) IN
              IF pt.none THEN Raise("ValueError") ELSE Ok(pt.val)

(* decrypt_message: the primary path, and on any exception                 *)
(* CryptoFallback.decrypt on the same bytes.                               *)
decrypt_message(encrypted_data, private_key) ==
    LET res == DecryptPrimary(encrypted_data, private_key) IN
    IF res.ok THEN res ELSE CryptoFallback_decrypt(encrypted_data, private_key)

-----------------------------------------------------------------------------
(* The mesh relay: data *)

NodeIds == {"A", "B", "C"}     \* node_id values (uuid4 strings in the code)

AddrOf(n) == CASE n = "A" -> "10.0.0.1" [] n = "B" -> "10.0.0.2" [] n = "C" -> "10.0.0.3"
BROADCAST_ADDR == "192.168.199.255"
PORT == 8000

KeySeed(n) == CASE n = "A" -> 1 [] n = "B" -> 2 [] n = "C" -> 3
public_key(n) == generate_keypair(KeySeed(n))[1]
private_key(n) == generate_keypair(KeySeed(n))[2]

Epoch0 == 1700000000           \* time.time() when the run begins
TickSeconds == 61              \* bound: the step of time.time(), over the inactivity threshold
MaxTicks == 1                  \* bound: the run lasts MaxTicks ticks
INACTIVE_THRESHOLD == 60
DEDUP_RETENTION == 300
DEFAULT_TTL == 3
ROUTING_TTL == 2
VOICE_TTL == 1

MaxIds == 4                    \* bound: distinct message ids in a run
MsgIds == 1..MaxIds
MaxIntroductions == 3          \* bound: discovery datagrams from outside the run

(* msg_id.split('-')[-1]: the last group of the uuid4 string, as character *)
(* codes ('0'..'9' = 48..57, 'a'..'f' = 97..102).                          *)
LastSegment(id) ==
    CASE id % 3 = 1 -> <<48, 97, 49, 98, 50, 99, 51, 100, 52, 101, 53, 102>>  \* 0a1b2c3d4e5f
      [] id % 3 = 2 -> <<49, 54, 57, 57, 57, 57, 57, 55, 52, 102, 102, 102>>  \* 169999974fff
      [] id % 3 = 0 -> <<102, 52, 55, 97, 99, 49, 48, 98, 53, 56, 99, 99>>    \* f47ac10b58cc

(* str(int(x)) for an integer x *)
RECURSIVE Digits(_)
Digits(x) == IF x < 10 THEN <<48 + x>> ELSE Append(Digits(x \div 10), 48 + (x % 10))
Str(x) == IF x < 0 THEN <<45>> \o Digits(-x) ELSE Digits(x)

(* Python's a > b on strings: lexicographic by code point. *)
RECURSIVE StrGreater(_, _)
StrGreater(a, b) ==
    IF a = <<>> THEN FALSE
    ELSE IF b = <<>> THEN TRUE
    ELSE IF Head(a) # Head(b) THEN Head(a) > Head(b)
    ELSE StrGreater(Tail(a), Tail(b))

(* The set comprehension of the maintenance loop (mesh_relay.py:318-321). *)
CleanUp(ids, current_time) ==
    { msg_id \in ids :
        StrGreater(LastSegment(msg_id), Str(current_time - DEDUP_RETENTION)) }

(* dataclass Node *)
Node(id, address, port, last_seen, key, is_active) ==
    [id |-> id, address |-> address, port |-> port, last_seen |-> last_seen,
     public_key |-> key, is_active |-> is_active]

(* dataclass Message *)
Message(id, sender_id, recipient_id, type, content, timestamp, ttl) ==
    [id |-> id, sender_id |-> sender_id, recipient_id |-> recipient_id,
     type |-> type, content |-> content, timestamp |-> timestamp, ttl |-> ttl]

(* Message.content is a string: the JSON text of an object (json = TRUE)   *)
(* with the keys below, or free text.                                      *)
DiscoveryContent(port, key) ==
    [json |-> TRUE, port |-> port, public_key |-> key, nodes |-> {}, text |-> ""]
RoutingContent(nodes_info) ==
    [json |-> TRUE, port |-> 0, public_key |-> NoKey, nodes |-> nodes_info, text |-> ""]
TextContent(text) ==
    [json |-> FALSE, port |-> 0, public_key |-> NoKey, nodes |-> {}, text |-> text]

NoMsg == Message(0, "", "", "", TextContent(""), 0, 0)

(* json.dumps(asdict(message)) and what json.loads and the Message constructor accept:  *)
(* valid = the text parses as a JSON object with the Message fields.       *)
JsonDumps(message) == [valid |-> TRUE, m |-> message]
NotJson == [valid |-> FALSE, m |-> NoMsg]

(* A UDP datagram: destination, source address, the encrypted bytes. *)
Datagram(addr, port, src, data) ==
    [addr |-> addr, port |-> port, src |-> src, data |-> data]

-----------------------------------------------------------------------------
(* The mesh relay: the methods of MeshRelay as operators on                *)
(* (node id, peer table).  A send loop yields its attempts, one per target *)
(* peer: ok = encrypt_message and sendto raised nothing.                   *)

Sendto(n, node, message, enc) ==
    [peer |-> node.id, ok |-> enc.ok, message |-> message,
     dgram |-> IF enc.ok
               THEN Datagram(node.address, node.port, AddrOf(n), enc.val)
               ELSE Datagram("", 0, "", Envelope("garbage", NoBytes, NoBytes))]

Attempt(n, tbl, p, message) ==
    Sendto(n, [tbl[p] EXCEPT !.id = p], message,
           encrypt_message(JsonDumps(message), tbl[p].public_key, 1))

(* Faulty variants of the relay step, used to test that the properties     *)
(* below tell a correct relay from an incorrect one.                       *)
RelayTargetsWithSender(n, tbl, message) ==
    { p \in DOMAIN tbl : p # n /\ tbl[p].is_active }
ForwardedSameTtl(n, message) == message
ForwardedAsOwn(n, message) == [message EXCEPT !.ttl = @ - 1, !.sender_id = n]
_handle_data_any(n, message) == TRUE
_handle_data_unicast(n, message) == message.recipient_id = n

(* The peers _relay_message sends to. *)
RelayTargets(n, tbl, message) ==
    { p \in DOMAIN tbl : p # n /\ p # message.sender_id /\ tbl[p].is_active }

(* The copy _handle_message hands to _relay_message: message.ttl -= 1. *)
Forwarded(n, message) == [message EXCEPT !.ttl = @ - 1]

(* A relay loop whose try block encloses the loop: one failing send ends  *)
(* it, and the peers after it are not sent the message.                    *)
_relay_message_aborting(n, tbl, message) ==
    IF message.ttl <= 0 THEN {}
    ELSE IF \A p \in RelayTargets(n, tbl, message) : Attempt(n, tbl, p, message).ok
    THEN { Attempt(n, tbl, p, message) : p \in RelayTargets(n, tbl, message) }
    ELSE { [Attempt(n, tbl, p, message) EXCEPT !.ok = FALSE] :
              p \in RelayTargets(n, tbl, message) }

(* A relay without the test of the remaining ttl. *)
_relay_message_unchecked(n, tbl, message) ==
    { Attempt(n, tbl, p, message) : p \in RelayTargets(n, tbl, message) }

(* _relay_message *)
_relay_message(n, tbl, message) ==
    IF message.ttl <= 0 THEN {}
    ELSE { Attempt(n, tbl, p, message) : p \in RelayTargets(n, tbl, message) }

(* _send_to_all_nodes *)
_send_to_all_nodes(n, tbl, message) ==
    { Attempt(n, tbl, p, message) : p \in { q \in DOMAIN tbl : q # n /\ tbl[q].is_active } }

(* _broadcast_message, the sends (the caller adds message.id to            *)
(* processed_messages): with BATMAN-Adv one datagram to the broadcast      *)
(* address, encrypted to the node's own key; when that sendto raises, or   *)
(* without BATMAN-Adv, one datagram per peer.                              *)
_broadcast_message(n, tbl, message, batman, sendto_ok) ==
    IF batman /\ sendto_ok
    THEN { Sendto(n, Node("broadcast", BROADCAST_ADDR, PORT, 0, public_key(n), TRUE),
                  message, encrypt_message(JsonDumps(message), public_key(n), 1)) }
    ELSE _send_to_all_nodes(n, tbl, message)

Upsert(tbl, id, node) ==
    [p \in (DOMAIN tbl) \cup {id} |-> IF p = id THEN node ELSE tbl[p]]

(* A discovery handler that records a sender only the first time. *)
_handle_discovery_once(n, tbl, message, addr, current_time) ==
    IF message.sender_id \in DOMAIN tbl THEN tbl
    ELSE Upsert(tbl, message.sender_id,
                Node(message.sender_id, addr, message.content.port, current_time,
                     message.content.public_key, TRUE))

(* _handle_discovery, the table update *)
_handle_discovery(n, tbl, message, addr, current_time) ==
    Upsert(tbl, message.sender_id,
           Node(message.sender_id, addr, message.content.port, current_time,
                message.content.public_key, TRUE))

(* _send_routing_info, the message *)
RoutingMessage(n, tbl, id, current_time) ==
    Message(id, n, "broadcast", "routing",
            RoutingContent({ tbl[p] : p \in { q \in DOMAIN tbl : tbl[q].is_active } }),
            current_time, ROUTING_TTL)

(* A routing handler that overwrites the peers it already knows. *)
_handle_routing_overwrite(n, tbl, message, current_time) ==
    [p \in (DOMAIN tbl) \cup { d.id : d \in { e \in message.content.nodes : e.id # n } } |->
        IF \E d \in message.content.nodes : d.id = p /\ p # n
        THEN [(CHOOSE d \in message.content.nodes : d.id = p)
                 EXCEPT !.last_seen = current_time]
        ELSE tbl[p]]

(* _handle_routing *)
_handle_routing(n, tbl, message, current_time) ==
    LET listed == message.content.nodes
        new == { d \in listed : d.id # n /\ d.id \notin DOMAIN tbl }
    IN  [p \in (DOMAIN tbl) \cup { d.id : d \in new } |->
            IF p \in DOMAIN tbl THEN tbl[p]
            ELSE [(CHOOSE d \in new : d.id = p) EXCEPT !.last_seen = current_time]]

(* _handle_data: whether the message is handed to local delivery *)
_handle_data(n, message) ==
    message.recipient_id = n \/ message.recipient_id = "broadcast"

(* The maintenance scan deleting the entries it finds stale. *)
MarkStaleRemoves(tbl, current_time) ==
    [p \in { q \in DOMAIN tbl : current_time - tbl[q].last_seen <= INACTIVE_THRESHOLD } |->
        tbl[p]]

(* The peers whose last_seen is older than the threshold become inactive. *)
MarkStale(tbl, current_time) ==
    [p \in DOMAIN tbl |->
        IF current_time - tbl[p].last_seen > INACTIVE_THRESHOLD
        THEN [tbl[p] EXCEPT !.is_active = FALSE]
        ELSE tbl[p]]

(* _handle_message on datagram (data, addr).  reply_id is the uuid4 drawn   *)
(* by _send_routing_info if it runs.  The result: the event, the new table *)
(* and dedup set, and what was sent.                                       *)
Discarded(event, message, tbl, seen) ==
    [event |-> event, message |-> message, nodes |-> tbl, processed |-> seen,
     deliver |-> FALSE, reply |-> {}, relay |-> {}]

(* the type handlers have run: tbl1 is the table they leave *)
Relayed(n, tbl1, seen1, message, isReply, current_time, reply_id, batman, sendto_ok) ==
    [event |-> "dispatched", message |-> message, nodes |-> tbl1,
     processed |-> IF isReply THEN seen1 \cup {reply_id} ELSE seen1,
     deliver |-> message.type \in {"text", "voice"} /\ _handle_data(n, message),
     reply |-> IF isReply
               THEN _broadcast_message(n, tbl1,
                       RoutingMessage(n, tbl1, reply_id, current_time),
                       batman, sendto_ok)
               ELSE {},
     relay |-> IF message.ttl > 0
               THEN _relay_message(n, tbl1, Forwarded(n, message))
               ELSE {}]

(* the datagram decoded to `message' *)
Dispatch(n, tbl, seen, message, addr, current_time, reply_id, batman, sendto_ok) ==
    IF message.id \in seen
    THEN Discarded("duplicate", message, tbl, seen)
    ELSE IF message.type \in {"discovery", "routing"} /\ ~message.content.json
    THEN \* json.loads(message.content) raises; caught at the end of the method
         Discarded("handler_error", message, tbl, seen \cup {message.id})
    ELSE Relayed(n,
                 CASE message.type = "discovery" ->
                        _handle_discovery(n, tbl, message, addr, current_time)
                   [] message.type = "routing" ->
                        _handle_routing(n, tbl, message, current_time)
                   [] OTHER -> tbl,
                 seen \cup {message.id}, message,
                 message.type = "discovery" /\ message.sender_id # n,
                 current_time, reply_id, batman, sendto_ok)

(* decrypt_message returned `dec' *)
Decoded(n, tbl, seen, dec, addr, current_time, reply_id, batman, sendto_ok) ==
    IF ~dec.ok THEN Discarded("decrypt_error", NoMsg, tbl, seen)
    ELSE IF ~dec.val.valid THEN Discarded("decode_error", NoMsg, tbl, seen)
    ELSE Dispatch(n, tbl, seen, dec.val.m, addr, current_time, reply_id,
                  batman, sendto_ok)

_handle_message(n, tbl, seen, data, addr, current_time, reply_id, batman, sendto_ok) ==
    Decoded(n, tbl, seen, decrypt_message(data, private_key(n)), addr,
            current_time, reply_id, batman, sendto_ok)

(* Whether handling the datagram draws a uuid4 for a routing reply. *)
DrawsReply(n, seen, dec) ==
    /\ dec.ok
    /\ dec.val.valid
    /\ dec.val.m.id \notin seen
    /\ dec.val.m.type = "discovery"
    /\ dec.val.m.content.json
    /\ dec.val.m.sender_id # n
DrawsReplyId(n, seen, data) == DrawsReply(n, seen, decrypt_message(data, private_key(n)))

-----------------------------------------------------------------------------
(* The mesh relay: state and actions *)

EmptyTable == [p \in {} |-> NoKey]

(* What a handler run is observed to do: the sends without the bytes. *)
Obs(attempts) == { [peer |-> a.peer, ok |-> a.ok, message |-> a.message] : a \in attempts }

(* The links of the chain A - B - C. *)
Neighbours(n) == CASE n = "A" -> {"B"} [] n = "B" -> {"A", "C"} [] n = "C" -> {"B"}

(* The hosts of the run within radio range of the socket at address src. *)
InRange(src) ==
    { h \in hosts : \E n \in NodeIds : AddrOf(n) = src /\ h \in Neighbours(n) }

(* The datagrams that reach the network: sends that raised nothing.  One   *)
(* to the address and port where a host of the run listens travels there;  *)
(* one to 192.168.199.255 reaches the socket of every host in range.       *)
Sent(attempts) ==
    { a.dgram : a \in { b \in attempts :
          /\ b.ok
          /\ b.dgram.port = PORT
          /\ \E h \in hosts : b.dgram.addr = AddrOf(h) } }
    \cup UNION { { Datagram(AddrOf(h), PORT, a.dgram.src, a.dgram.data) :
                     h \in InRange(a.dgram.src) } :
                 a \in { b \in attempts : b.ok /\ b.dgram.addr = BROADCAST_ADDR } }

Quiet == [node |-> "", op |-> "init", event |-> "", message |-> NoMsg,
          again |-> FALSE, deliver |-> FALSE,
          reply |-> {}, relay |-> {}]

(* The message inside an envelope made by encrypt_message. *)
Inner(data) == data.msg.pt.m

(* uuid4() returns an id that is nowhere in the system, nor among the ids  *)
(* held by the call in progress.  Node A draws from 1..MaxIds, B and C     *)
(* from the next two ranges, and the senders outside the run from the      *)
(* range after those; a draw is the least id of the range that is free.    *)
IdsOf(n) ==
    CASE n = "A" -> 1..MaxIds
      [] n = "B" -> (MaxIds + 1)..(2 * MaxIds)
      [] n = "C" -> (2 * MaxIds + 1)..(3 * MaxIds)
      [] OTHER -> (3 * MaxIds + 1)..(3 * MaxIds + MaxIntroductions)
LiveIds ==
    UNION { processed_messages[n] \cup dispatched[n] : n \in NodeIds }
      \cup { Inner(d.data).id : d \in network }
      \cup {last.message.id}
      \cup { a.message.id : a \in last.reply }
FreshIds(n, held) == IdsOf(n) \ (LiveIds \cup held)
Uuid4(n, held) == { id \in FreshIds(n, held) : \A j \in FreshIds(n, held) : id <= j }

(* The chain A-B-C: every node lists its neighbours, and only them, as    *)
(* active peers at their own address, port and key.                        *)
Chain ==
    /\ hosts = NodeIds
    /\ \A n \in NodeIds :
          /\ started[n]
          /\ DOMAIN nodes[n] = Neighbours(n)
          /\ \A p \in DOMAIN nodes[n] :
                /\ nodes[n][p].is_active
                /\ nodes[n][p].address = AddrOf(p)
                /\ nodes[n][p].port = PORT
                /\ nodes[n][p].public_key = public_key(p)

NoFlood == [sent |-> FALSE, message |-> NoMsg, lost |-> FALSE]

(* last is the record of the handler run that has just returned; it is     *)
(* dropped before the next run begins.                                     *)
Ready == last = Quiet

Forget ==
    /\ ~Ready
    /\ last' = Quiet
    /\ UNCHANGED <<hosts, batman_available, nodes, processed_messages, started,
                   sleeping, now, network, dispatched, flood>>
    /\ UNCHANGED <<configVars, cryptoVars, voiceVars, threadVars>>

RelayInit(H) ==
    /\ hosts = H
    /\ \E b \in BOOLEAN : batman_available = [n \in NodeIds |-> b]
    /\ nodes = [n \in NodeIds |-> EmptyTable]
    /\ processed_messages = [n \in NodeIds |-> {}]
    /\ started = [n \in NodeIds |-> FALSE]
    /\ sleeping = [n \in NodeIds |-> FALSE]
    /\ now = Epoch0
    /\ network = {}
    /\ dispatched = [n \in NodeIds |-> {}]
    /\ flood = NoFlood
    /\ last = Quiet

CryptoIdle ==
    /\ cr_pc = "off"
    /\ cr_public_key = NoKey
    /\ cr_private_key = NoKey
    /\ cr_message = EmptyText
    /\ cr_encrypted = Null
    /\ cr_wire = Null
    /\ cr_tamper = "unset"
    /\ cr_decrypted = Null

SendtoOutcomes(n) == IF batman_available[n] THEN BOOLEAN ELSE {FALSE}

(* _send_discovery, the message *)
(* A discovery message that leaves its originator one hop short. *)
DiscoveryMessageDecremented(n, id) ==
    Message(id, n, "broadcast", "discovery",
            DiscoveryContent(PORT, public_key(n)), now, DEFAULT_TTL - 1)

DiscoveryMessage(n, id) ==
    Message(id, n, "broadcast", "discovery",
            DiscoveryContent(PORT, public_key(n)), now, DEFAULT_TTL)

(* start(): the two threads start and a discovery message is broadcast. *)
start_relay(n) ==
    /\ Ready
    /\ n \in hosts
    /\ ~started[n]
    /\ \E id \in Uuid4(n, {}), sendto_ok \in SendtoOutcomes(n) :
         LET sends == _broadcast_message(n, nodes[n], DiscoveryMessage(n, id),
                                         batman_available[n], sendto_ok)
         IN /\ processed_messages' =
                  [processed_messages EXCEPT ![n] = @ \cup {id}]
            /\ network' = network \cup Sent(sends)
            /\ last' = [Quiet EXCEPT !.node = n, !.op = "start", !.event = "sent",
                          !.message = DiscoveryMessage(n, id), !.reply = Obs(sends)]
    /\ started' = [started EXCEPT ![n] = TRUE]
    /\ UNCHANGED <<hosts, batman_available, nodes, sleeping, now, dispatched, flood>>

(* start() on a relay that has not been started. *)
Start(n) ==
    /\ start_relay(n)
    /\ UNCHANGED <<configVars, cryptoVars, voiceVars, threadVars>>

(* One cycle of _maintain_nodes: mark stale peers, broadcast a discovery   *)
(* message, clean the dedup set, then sleep.                               *)
maintain_cycle(n) ==
    /\ Ready
    /\ n \in hosts
    /\ started[n]
    /\ ~sleeping[n]
    /\ \E id \in Uuid4(n, {}), sendto_ok \in SendtoOutcomes(n) :
         LET current_time == now
             tbl == MarkStale(nodes[n], current_time)
             sends == _broadcast_message(n, tbl, DiscoveryMessage(n, id),
                                         batman_available[n], sendto_ok)
         IN /\ nodes' = [nodes EXCEPT ![n] = tbl]
            /\ processed_messages' =
                  [processed_messages EXCEPT
                      ![n] = CleanUp(@ \cup {id}, current_time)]
            /\ network' = network \cup Sent(sends)
            /\ last' = [Quiet EXCEPT !.node = n, !.op = "maintain", !.event = "sent",
                          !.message = DiscoveryMessage(n, id), !.reply = Obs(sends)]
    /\ sleeping' = [sleeping EXCEPT ![n] = TRUE]
    /\ UNCHANGED <<hosts, batman_available, started, now, dispatched, flood>>

(* The maintenance thread runs one cycle. *)
Maintain(n) ==
    /\ maintain_cycle(n)
    /\ UNCHANGED <<configVars, cryptoVars, voiceVars, threadVars>>

(* time.time() advances by TickSeconds: every maintenance sleep (30 s) ends. *)
Tick ==
    /\ Ready
    /\ now < Epoch0 + MaxTicks * TickSeconds
    /\ now' = now + TickSeconds
    /\ sleeping' = [n \in NodeIds |-> FALSE]
    /\ UNCHANGED <<hosts, batman_available, nodes, processed_messages, started,
                   network, dispatched, flood, last>>
    /\ UNCHANGED <<configVars, cryptoVars, voiceVars, threadVars>>

(* send_text_message / send_voice_data: what the call does to the relay. *)
Originate(n, op, type, ttl, recipient_id, content) ==
    /\ Ready
    /\ n \in hosts
    /\ \E id \in Uuid4(n, {}), sendto_ok \in SendtoOutcomes(n) :
         LET message == Message(id, n, recipient_id, type, content, now, ttl)
             sends == IF recipient_id = "broadcast"
                      THEN _broadcast_message(n, nodes[n], message,
                                              batman_available[n], sendto_ok)
                      ELSE IF recipient_id \in DOMAIN nodes[n]
                      THEN {Attempt(n, nodes[n], recipient_id, message)}
                      ELSE {}
         IN /\ processed_messages' =
                  IF recipient_id = "broadcast"
                  THEN [processed_messages EXCEPT ![n] = @ \cup {id}]
                  ELSE processed_messages
            /\ network' = network \cup Sent(sends)
            /\ flood' = IF /\ flood = NoFlood
                           /\ n = "A" /\ type = "text" /\ recipient_id = "broadcast"
                           /\ Chain /\ network = {}
                        THEN [sent |-> TRUE, message |-> message, lost |-> FALSE]
                        ELSE flood
            /\ last' = [Quiet EXCEPT !.node = n, !.op = op,
                          !.event = IF recipient_id = "broadcast"
                                       \/ recipient_id \in DOMAIN nodes[n]
                                    THEN "sent" ELSE "unknown_recipient",
                          !.message = message, !.reply = Obs(sends)]
    /\ UNCHANGED <<hosts, batman_available, nodes, started, sleeping, now,
                   dispatched>>

(* send_text_message / send_voice_data called on the relay object. *)
SendData(n, op, type, ttl, recipient_id, content) ==
    /\ Originate(n, op, type, ttl, recipient_id, content)
    /\ UNCHANGED <<configVars, cryptoVars, voiceVars, threadVars>>

(* The recipients callers name. *)
Recipients == {"B", "broadcast"}

send_text_message(n) ==
    /\ Ready
    /\ \E recipient_id \in Recipients :
           SendData(n, "send_text", "text", DEFAULT_TTL, recipient_id, TextContent("hello"))

send_voice_data(n) ==
    /\ Ready
    /\ \E recipient_id \in Recipients :
           SendData(n, "send_voice", "voice", VOICE_TTL, recipient_id, TextContent("UklGRg=="))

(* The receive thread takes one datagram and runs _handle_message on it.   *)
(* ReplyDraws: the uuid4 and the sendto outcome of the routing reply.      *)
ReplyDraws(n, data) ==
    IF DrawsReplyId(n, processed_messages[n], data)
    THEN Uuid4(n, {Inner(data).id}) \X SendtoOutcomes(n)
    ELSE {<<0, FALSE>>}

Commit(n, h, rest) ==
    /\ nodes' = [nodes EXCEPT ![n] = h.nodes]
    /\ processed_messages' = [processed_messages EXCEPT ![n] = h.processed]
    /\ dispatched' = IF h.event \in {"dispatched", "handler_error"}
                     THEN [dispatched EXCEPT ![n] = @ \cup {h.message.id}]
                     ELSE dispatched
    /\ network' = rest \cup Sent(h.reply) \cup Sent(h.relay)
    /\ last' = [node |-> n, op |-> "receive", event |-> h.event,
                message |-> h.message,
                again |-> /\ h.event \in {"dispatched", "handler_error"}
                          /\ h.message.id \in dispatched[n],
                deliver |-> h.deliver,
                reply |-> Obs(h.reply), relay |-> Obs(h.relay)]

handle_datagram(n, data, addr, rest) ==
    /\ Ready
    /\ n \in hosts
    /\ started[n]
    /\ \E draw \in ReplyDraws(n, data) :
          Commit(n, _handle_message(n, nodes[n], processed_messages[n], data, addr,
                                    now, draw[1], batman_available[n], draw[2]),
                 rest)
    /\ UNCHANGED <<hosts, batman_available, started, sleeping, now, flood>>

(* The receive thread handles one datagram. *)
Handle(n, data, addr, rest) ==
    /\ handle_datagram(n, data, addr, rest)
    /\ UNCHANGED <<configVars, cryptoVars, voiceVars, threadVars>>

(* recvfrom returns a datagram that a host of the run has sent. *)
ReceiveNet(n) ==
    /\ Ready
    /\ \E d \in network :
           /\ d.port = PORT
           /\ d.addr = AddrOf(n)
           /\ Handle(n, d.data, d.src, network \ {d})

(* A datagram in flight is lost. *)
Drop ==
    /\ Ready
    /\ \E d \in network :
          /\ network' = network \ {d}
          /\ flood' = IF flood.sent /\ Inner(d.data).id = flood.message.id
                      THEN [flood EXCEPT !.lost = TRUE]
                      ELSE flood
    /\ UNCHANGED <<hosts, batman_available, nodes, processed_messages, started,
                   sleeping, now, dispatched, last>>
    /\ UNCHANGED <<configVars, cryptoVars, voiceVars, threadVars>>

-----------------------------------------------------------------------------
(* One relay, node A, and everything its socket can be sent.  The peers B  *)
(* and C are the environment: any of the datagrams below may arrive at any *)
(* time, any number of times.                                              *)

Self == "A"

Seal(payload, key) == encrypt_message(payload, key, 1).val

ControlIds == {1, 2}

DataCases ==
    ({"B"} \X {"A", "C", "broadcast"} \X {"text"} \X {DEFAULT_TTL})
      \cup ({"B"} \X {"broadcast"} \X {"text"} \X {0, 1})
      \cup ({"C"} \X {"A", "B"} \X {"voice"} \X {VOICE_TTL})

ListedC(is_active) == Node("C", AddrOf("C"), PORT, Epoch0, public_key("C"), is_active)
ListedA == Node("A", AddrOf("A"), PORT, Epoch0, public_key("A"), TRUE)

ExoMessages ==
    { Message(i, c[1], c[2], c[3], TextContent("hello"), Epoch0, c[4]) :
         i \in MsgIds, c \in DataCases }
      \cup { Message(i, s, "broadcast", "discovery",
                     DiscoveryContent(PORT, public_key(s)), Epoch0, DEFAULT_TTL) :
               i \in ControlIds, s \in {"A", "B"} }
      \cup { Message(i, "C", "broadcast", "discovery",
                     DiscoveryContent(PORT, NoKey), Epoch0, DEFAULT_TTL) : i \in ControlIds }
      \cup { Message(i, "B", "broadcast", "discovery",
                     TextContent("{"), Epoch0, DEFAULT_TTL) : i \in ControlIds }
      \cup { Message(i, "B", "broadcast", "routing", RoutingContent(listed),
                     Epoch0, ROUTING_TTL) :
               i \in ControlIds, listed \in {{ListedC(TRUE)}, {ListedC(FALSE), ListedA}} }

Probe == Message(1, "B", "broadcast", "text", TextContent("ping"), Epoch0, DEFAULT_TTL)

ExoDatagrams ==
    { [data |-> Seal(JsonDumps(m), public_key(Self)),
       addr |-> AddrOf(IF m.sender_id = Self THEN "B" ELSE m.sender_id)] :
         m \in ExoMessages }
      \cup { [data |-> data, addr |-> AddrOf("B")] : data \in
               { \* encrypted to another node's key
                 Seal(JsonDumps(Probe), public_key("B")),
                 \* one byte of encrypted_message changed
                 [Seal(JsonDumps(Probe), public_key(Self)) EXCEPT !.msg.flip = 1],
                 \* not a JSON container
                 [Seal(JsonDumps(Probe), public_key(Self)) EXCEPT !.fmt = "garbage"],
                 \* decrypts to text that is not a Message
                 Seal(NotJson, public_key(Self)) } }

ReceiveExo(n) ==
    /\ Ready
    /\ started[n]
    /\ \E d \in ExoDatagrams : Handle(n, d.data, d.addr, network)

Init ==
    /\ KYBER_AVAILABLE \in BOOLEAN
    /\ NACL_AVAILABLE = TRUE
    /\ CryptoIdle
    /\ RelayInit({Self})
    /\ VoiceIdle
    /\ ThreadIdle

Next ==
    \/ Start(Self)
    \/ Maintain(Self)
    \/ Tick
    \/ send_text_message(Self)
    \/ send_voice_data(Self)
    \/ ReceiveExo(Self)
    \/ Forget

Spec == Init /\ [][Next]_vars

-----------------------------------------------------------------------------
(* Three relays A, B, C on one network.  A relay learns its first peer     *)
(* only from a datagram it can decrypt, so first contact comes from        *)
(* outside the run: node x is sent the routing message of its neighbour y, *)
(* at its last hop, listing the neighbours of x.                           *)

Links == {<<"A", "B">>, <<"B", "A">>, <<"C", "B">>}

Listed(p) == Node(p, AddrOf(p), PORT, now, public_key(p), TRUE)

Introduce(x, y) ==
    /\ Ready
    /\ \E id \in Uuid4("outside", {}) :
         Handle(x, Seal(JsonDumps(Message(id, y, "broadcast", "routing",
                                          RoutingContent({ Listed(p) : p \in Neighbours(x) }),
                                          now, 1)),
                        public_key(x)),
                AddrOf(y), network)

(* A copy of the flooded text is injected again at B. *)
Reinject ==
    /\ Ready
    /\ flood.sent
    /\ Handle("B", Seal(JsonDumps(flood.message), public_key("B")),
              AddrOf("A"), network)

(* Once the chain is up, a caller on node A runs                           *)
(* send_text_message("broadcast", "hello").                                *)
ChainSend ==
    /\ Chain
    /\ ~flood.sent
    /\ SendData("A", "send_text", "text", DEFAULT_TTL, "broadcast", TextContent("hello"))

MeshInit ==
    /\ KYBER_AVAILABLE \in BOOLEAN
    /\ NACL_AVAILABLE = TRUE
    /\ CryptoIdle
    /\ RelayInit(NodeIds)
    /\ VoiceIdle
    /\ ThreadIdle

MeshNext ==
    \/ \E n \in NodeIds : Start(n)
    \/ \E l \in Links : Introduce(l[1], l[2])
    \/ ChainSend
    \/ \E n \in NodeIds : ReceiveNet(n)
    \/ Drop
    \/ Reinject
    \/ Forget

SpecMesh == MeshInit /\ [][MeshNext]_vars

-----------------------------------------------------------------------------
(* Properties of one relay (Spec) and of the mesh (SpecMesh) *)

Receives == last.op = "receive"
Dispatches == Receives /\ last.event = "dispatched"
IsData(message) == message.type \in {"text", "voice"}
IsLocal(message) == message.recipient_id \in {last.node, "broadcast"}
PeersOf(attempts) == { a.peer : a \in attempts }
ActiveOthers ==
    { p \in DOMAIN nodes[last.node] : nodes[last.node][p].is_active }
       \ {last.node, last.message.sender_id}

(* C1: a node dispatches a message id at most once; every later arrival   *)
(* of the same id is discarded.                                          *)
DedupAtMostOnce == ~last.again

(* C2: every forwarded copy carries ttl = incoming ttl - 1, and that is   *)
(* at least 1; a message arriving with ttl = 1 is delivered locally when   *)
(* addressed to the node or to broadcast and is forwarded to no peer.      *)
TtlMonotone ==
    Receives =>
       /\ \A a \in last.relay : /\ a.message.ttl = last.message.ttl - 1
                                /\ a.message.ttl >= 1
       /\ (Dispatches /\ last.message.ttl = 1) =>
             /\ last.relay = {}
             /\ (IsData(last.message) /\ IsLocal(last.message)) => last.deliver

TtlMonotoneWitness ==
    /\ Dispatches
    /\ last.message.ttl = DEFAULT_TTL
    /\ \E a \in last.relay : a.ok /\ a.message.ttl = DEFAULT_TTL - 1

(* C3, as stated: the peers a relayed message is sent to are exactly the   *)
(* active peers of the table other than the node and the sender: none of   *)
(* them is skipped.                                                        *)
RelayFanOutSent ==
    (Dispatches /\ last.message.ttl > 1) =>
        PeersOf({ a \in last.relay : a.ok }) = ActiveOthers

(* C3, amended: the peers a relayed message is addressed to (a send is     *)
(* attempted) are exactly the active peers of the table other than the     *)
(* node and the sender; a peer whose send raises is skipped, and a message *)
(* that is not relayed is addressed to nobody.                             *)
RelayFanOut ==
    Receives =>
        PeersOf(last.relay) =
            IF Dispatches /\ last.message.ttl > 1 THEN ActiveOthers ELSE {}

RelayFanOutWitness ==
    /\ Dispatches
    /\ \E a \in last.relay : a.ok
    /\ last.message.sender_id \in DOMAIN nodes[last.node]
    /\ \E p \in DOMAIN nodes[last.node] : ~nodes[last.node][p].is_active

(* C4: a received message is delivered locally iff it is not a duplicate,  *)
(* its kind is text or voice and its recipient is the node or broadcast;   *)
(* discovery and routing are never delivered, and data for another node is *)
(* relayed, not delivered.                                                 *)
LocalDelivery ==
    Receives =>
       /\ last.deliver <=>
             (Dispatches /\ IsData(last.message) /\ IsLocal(last.message))
       /\ (Dispatches /\ IsData(last.message) /\ ~IsLocal(last.message)
             /\ last.message.ttl > 1) => PeersOf(last.relay) = ActiveOthers

LocalDeliveryWitness ==
    /\ Dispatches
    /\ last.message.type = "voice"
    /\ last.message.recipient_id = last.node
    /\ last.deliver

(* C5: a message arriving with ttl = 0 is still dispatched, and delivered  *)
(* locally when addressed to the node or to broadcast, but never relayed.  *)
ZeroTtl ==
    (Receives /\ IsData(last.message) /\ last.message.ttl = 0
       /\ last.event # "duplicate") =>
          /\ Dispatches
          /\ last.relay = {}
          /\ IsLocal(last.message) => last.deliver

ZeroTtlWitness ==
    /\ Dispatches
    /\ last.message.ttl = 0
    /\ last.deliver
    /\ ActiveOthers # {}

(* C6: a forwarded copy differs from the received message in ttl only.     *)
OnlyTtlChanges ==
    Receives =>
       \A a \in last.relay : [a.message EXCEPT !.ttl = last.message.ttl] = last.message

OnlyTtlChangesWitness ==
    /\ Dispatches
    /\ last.message.type = "text"
    /\ last.message.recipient_id = "C"
    /\ \E a \in last.relay : a.ok /\ a.peer = "C"

(* C7: on the chain A-B-C with every datagram delivered, the text A        *)
(* broadcasts is delivered at C, once and with sender_id = A, and a copy   *)
(* injected again at B is discarded.                                       *)
FloodedText ==
    /\ (flood.sent /\ ~flood.lost /\ network = {} /\ Ready) =>
          flood.message.id \in dispatched["C"]
    /\ (flood.sent /\ Receives /\ last.message.id = flood.message.id) =>
          /\ ~last.again
          /\ (last.node = "C" /\ Dispatches) =>
                (last.deliver /\ last.message.sender_id = "A")

(* The attributes of a MeshRelay besides the peer table and the dedup set *)
(* (MeshRelay.__init__ assigns no counter).                                *)
OtherAttributes(n) == <<batman_available[n], started[n], sleeping[n]>>

(* C10: a datagram that fails decryption delivers nothing, relays nothing, *)
(* leaves the peer table and the dedup set alone, and is counted: the      *)
(* node's DecryptError counter, an attribute of the node, goes up by one.  *)
DecryptErrorCounted ==
    [][\A n \in NodeIds :
          (last'.op = "receive" /\ last'.node = n /\ last'.event = "decrypt_error") =>
             /\ ~last'.deliver /\ last'.relay = {} /\ last'.reply = {}
             /\ nodes' = nodes /\ processed_messages' = processed_messages
             /\ OtherAttributes(n)' # OtherAttributes(n)]_vars

(* What does hold of a datagram that fails decryption. *)
DecryptErrorSilent ==
    [][(last'.op = "receive" /\ last'.event = "decrypt_error") =>
          /\ ~last'.deliver /\ last'.relay = {} /\ last'.reply = {}
          /\ nodes' = nodes /\ processed_messages' = processed_messages]_vars
-----------------------------------------------------------------------------
(* The crypto harness: generate a keypair, encrypt a payload to it, carry  *)
(* the envelope (intact or modified) to decrypt_message.  This is the      *)
(* module's self-test (crypto.py __main__) with the envelope exposed to    *)
(* the network in between.                                                 *)

Payloads ==
    { EmptyText, [text |-> "ping", len |-> 4],
      [text |-> "pings", len |-> 5], [text |-> "pingss", len |-> 6] }

NONCE_LEN == 24          \* XChaCha20 nonce
SHA256_LEN == 32         \* HMAC-SHA256 tag / digest
SECRETBOX_MAC_LEN == 16  \* Poly1305 tag of nacl.secret.SecretBox

(* Unused low bits in the last base64 character of n encoded bytes. *)
SlackBits(n) == CASE n % 3 = 0 -> 0 [] n % 3 = 1 -> 4 [] n % 3 = 2 -> 2

(* Byte length of the AEAD blob for a payload of len bytes. *)
BlobLen(len) ==
    IF NACL_AVAILABLE THEN NONCE_LEN + SECRETBOX_MAC_LEN + len
    ELSE NONCE_LEN + SHA256_LEN + len

RelayIdle ==
    /\ hosts = {}
    /\ batman_available = [n \in NodeIds |-> FALSE]
    /\ nodes = [n \in NodeIds |-> EmptyTable]
    /\ processed_messages = [n \in NodeIds |-> {}]
    /\ started = [n \in NodeIds |-> FALSE]
    /\ sleeping = [n \in NodeIds |-> FALSE]
    /\ now = Epoch0
    /\ network = {}
    /\ dispatched = [n \in NodeIds |-> {}]
    /\ flood = NoFlood
    /\ last = Quiet

CrInit ==
    /\ KYBER_AVAILABLE \in BOOLEAN
    /\ NACL_AVAILABLE \in BOOLEAN
    /\ cr_pc = "keygen"
    /\ cr_public_key = NoKey
    /\ cr_private_key = NoKey
    /\ cr_message = EmptyText
    /\ cr_encrypted = Null
    /\ cr_wire = Null
    /\ cr_tamper = "unset"
    /\ cr_decrypted = Null
    /\ RelayIdle
    /\ VoiceIdle
    /\ ThreadIdle

CrKeygen ==
    /\ cr_pc = "keygen"
    /\ \E seed \in 1..MaxKeys :
          /\ cr_public_key' = generate_keypair(seed)[1]
          /\ cr_private_key' = generate_keypair(seed)[2]
    /\ cr_pc' = "encrypt"
    /\ UNCHANGED <<cr_message, cr_encrypted, cr_wire, cr_tamper, cr_decrypted>>
    /\ UNCHANGED <<configVars, relayVars, voiceVars, threadVars>>

CrEncrypt ==
    /\ cr_pc = "encrypt"
    /\ \E m \in Payloads, r \in 1..MaxRnd :
          /\ cr_message' = m
          /\ cr_encrypted' = encrypt_message(m, cr_public_key, r)
    /\ cr_encrypted'.ok
    /\ cr_wire' = cr_encrypted'.val
    /\ cr_pc' = "wire"
    /\ UNCHANGED <<cr_public_key, cr_private_key, cr_tamper, cr_decrypted>>
    /\ UNCHANGED <<configVars, relayVars, voiceVars, threadVars>>

(* The envelope arrives as sent. *)
CrIntact ==
    /\ cr_pc = "wire"
    /\ cr_tamper' = "none"
    /\ cr_pc' = "decrypt"
    /\ UNCHANGED <<cr_public_key, cr_private_key, cr_message, cr_encrypted,
                   cr_wire, cr_decrypted>>
    /\ UNCHANGED <<configVars, relayVars, voiceVars, threadVars>>

(* One bit of the envelope changes in transit. *)
CrFlipBit ==
    /\ cr_pc = "wire"
    /\ cr_wire.fmt = "kyber_ciphertext_encrypted_message"
    /\ \/ \* a data bit of the KEM ciphertext field
          /\ cr_wire' = [cr_wire EXCEPT !.kem.flip = 1]
          /\ cr_tamper' = "kem_bit"
       \/ \* a bit that turns a base64 character into a non-alphabet one
          /\ cr_wire' = [cr_wire EXCEPT !.kem.flip = -1]
          /\ cr_tamper' = "kem_not_base64"
       \/ \* a data bit of the AEAD blob field
          /\ cr_wire' = [cr_wire EXCEPT !.msg.flip = 1]
          /\ cr_tamper' = "msg_bit"
       \/ /\ cr_wire' = [cr_wire EXCEPT !.msg.flip = -1]
          /\ cr_tamper' = "msg_not_base64"
       \/ \* an unused bit of the last character of the AEAD blob field
          /\ SlackBits(BlobLen(cr_message.len)) > 0
          /\ cr_wire' = [cr_wire EXCEPT !.msgSlack = 2]
          /\ cr_tamper' = "msg_slack_bit"
       \/ \* an unused bit of the last character of the HMAC "ciphertext"
          /\ ~KYBER_AVAILABLE
          /\ SlackBits(SHA256_LEN) > 0
          /\ cr_wire' = [cr_wire EXCEPT !.kemSlack = 2]
          /\ cr_tamper' = "kem_slack_bit"
       \/ \* a bit of the JSON syntax or of a key name
          /\ cr_wire' = [cr_wire EXCEPT !.fmt = "garbage"]
          /\ cr_tamper' = "container"
    /\ cr_pc' = "decrypt"
    /\ UNCHANGED <<cr_public_key, cr_private_key, cr_message, cr_encrypted,
                   cr_decrypted>>
    /\ UNCHANGED <<configVars, relayVars, voiceVars, threadVars>>

(* The envelope is replaced by a container in a fallback format with an    *)
(* empty ciphertext: {"nonce": "", "ciphertext": ""} or the epk form.      *)
CrReplace ==
    /\ cr_pc = "wire"
    /\ \E fmt \in {"nonce_ciphertext", "epk_ciphertext"} :
          cr_wire' = Envelope(fmt, NoBytes,
                        [alg |-> "xor", key |-> NoKey, pt |-> EmptyText, flip |-> 0])
    /\ cr_tamper' = "fallback_container"
    /\ cr_pc' = "decrypt"
    /\ UNCHANGED <<cr_public_key, cr_private_key, cr_message, cr_encrypted,
                   cr_decrypted>>
    /\ UNCHANGED <<configVars, relayVars, voiceVars, threadVars>>

CrDecrypt ==
    /\ cr_pc = "decrypt"
    /\ cr_decrypted' = decrypt_message(cr_wire, cr_private_key)
    /\ cr_pc' = "done"
    /\ UNCHANGED <<cr_public_key, cr_private_key, cr_message, cr_encrypted,
                   cr_wire, cr_tamper>>
    /\ UNCHANGED <<configVars, relayVars, voiceVars, threadVars>>

CrNext == CrKeygen \/ CrEncrypt \/ CrIntact \/ CrFlipBit \/ CrReplace \/ CrDecrypt

SpecCrypto == CrInit /\ [][CrNext]_vars

-----------------------------------------------------------------------------
(* C8: decrypt_message(encrypt_message(payload, pub), priv) returns        *)
(* exactly payload for every keypair of generate_keypair, in every backend *)
(* configuration (Kyber available or not, NaCl available or not).          *)
CryptoRoundTrip ==
    (cr_pc = "done" /\ cr_tamper = "none") => cr_decrypted = Ok(cr_message)

(* C9: decrypting any modified envelope (one changed bit of the KEM        *)
(* ciphertext field or of the AEAD blob field, or a malformed container)   *)
(* raises an error and returns no plaintext.                               *)
CryptoAuthenticity ==
    (cr_pc = "done" /\ cr_tamper \notin {"none", "unset"}) => ~cr_decrypted.ok

-----------------------------------------------------------------------------
(* Keys across peers.  A recipient key reaches encrypt_message from a      *)
(* discovery message, so it was made by generate_keypair on a host whose   *)
(* import-time flags need not be those of this host.                       *)

(* generate_keypair as it runs on a host with flags (kyber, nacl). *)
PeerKeypair(seed, kyber, nacl) ==
    IF kyber
    THEN <<[alg |-> "kyber", part |-> "public", seed |-> seed],
           [alg |-> "kyber", part |-> "private", seed |-> seed]>>
    ELSE IF nacl
    THEN <<[alg |-> "nacl", part |-> "public", seed |-> seed],
           [alg |-> "nacl", part |-> "private", seed |-> seed]>>
    ELSE <<[alg |-> "sha256_of_private", part |-> "public", seed |-> seed],
           [alg |-> "token_bytes", part |-> "private", seed |-> seed]>>

(* The payload is to be encrypted to the key of a peer. *)
CrPeerKey ==
    /\ cr_pc = "keygen"
    /\ \E seed \in 1..MaxKeys, kyber \in BOOLEAN, nacl \in BOOLEAN :
          /\ cr_public_key' = PeerKeypair(seed, kyber, nacl)[1]
          /\ cr_private_key' = PeerKeypair(seed, kyber, nacl)[2]
    /\ cr_pc' = "encrypt"
    /\ UNCHANGED <<cr_message, cr_encrypted, cr_wire, cr_tamper, cr_decrypted>>
    /\ UNCHANGED <<configVars, relayVars, voiceVars, threadVars>>

(* encrypt_message raised: nothing goes on the wire. *)
CrEncryptRaises ==
    /\ cr_pc = "encrypt"
    /\ \E m \in Payloads, r \in 1..MaxRnd :
          /\ cr_message' = m
          /\ cr_encrypted' = encrypt_message(m, cr_public_key, r)
    /\ ~cr_encrypted'.ok
    /\ cr_pc' = "done"
    /\ UNCHANGED <<cr_public_key, cr_private_key, cr_wire, cr_tamper, cr_decrypted>>
    /\ UNCHANGED <<configVars, relayVars, voiceVars, threadVars>>

CrPeerNext == CrNext \/ CrPeerKey \/ CrEncryptRaises

SpecDowngrade == CrInit /\ [][CrPeerNext]_vars

PRIMARY_FORMAT == "kyber_ciphertext_encrypted_message"

(* C11: every envelope encrypt_message returns has the primary format     *)
(* (fields kyber_ciphertext and encrypted_message): when the KEM + AEAD    *)
(* path fails for a recipient key no fallback-format envelope is emitted,  *)
(* and decrypt_message accepts no envelope in a fallback format.           *)
NoSilentDowngrade ==
    /\ cr_encrypted.ok => cr_encrypted.val.fmt = PRIMARY_FORMAT
    /\ (cr_pc = "done" /\ cr_wire # Null /\ cr_wire.fmt # PRIMARY_FORMAT)
          => ~cr_decrypted.ok


-----------------------------------------------------------------------------
(* Voice processing: server/ai_voice.py and the voice routes of            *)
(* server/app.py.  A frame is known by the voice-activity probability, in  *)
(* hundredths, that the noise processor reports for it.                    *)

FRAME_SIZE == 480
VAD_THRESHOLD == 50
min_speech_frames == 10
min_silence_frames == 20

(* bound: the longest run of voiced frames, and of unvoiced frames, fed to *)
(* one processor.                                                          *)
MaxSpeechRun == 12
MaxSilenceRun == 22

VadProbs == {0, 49, 50, 100}

(* What a request carries in its "audio" field: nothing, text that is not  *)
(* base64, or the base64 text of PCM samples.                              *)
Submissions ==
    {[b64 |-> "missing", vad_prob |-> 0], [b64 |-> "invalid", vad_prob |-> 0]}
    \cup { [b64 |-> "valid", vad_prob |-> v] : v \in VadProbs }

Callers == {"this", "other"}

(* process_audio, lines 258-266: the frame padded or truncated to          *)
(* FRAME_SIZE samples of two bytes; the denoised frame has that length.    *)
frame_size_bytes == FRAME_SIZE * 2
Denoised(len) == frame_size_bytes

(* process_audio with the onset threshold ignored. *)
process_audio_eager(p, vad_prob) ==
    IF vad_prob >= VAD_THRESHOLD
    THEN [is_speech |-> TRUE,
          speech_frames |-> p.speech_frames + 1,
          silence_frames |-> 0]
    ELSE [is_speech |-> IF p.silence_frames + 1 >= min_silence_frames
                        THEN FALSE ELSE p.is_speech,
          speech_frames |-> 0,
          silence_frames |-> p.silence_frames + 1]

(* process_audio with counters that opposing frames do not reset. *)
process_audio_sticky(p, vad_prob) ==
    IF vad_prob >= VAD_THRESHOLD
    THEN [is_speech |-> IF p.speech_frames + 1 >= min_speech_frames
                        THEN TRUE ELSE p.is_speech,
          speech_frames |-> p.speech_frames + 1,
          silence_frames |-> p.silence_frames]
    ELSE [is_speech |-> IF p.silence_frames + 1 >= min_silence_frames
                        THEN FALSE ELSE p.is_speech,
          speech_frames |-> p.speech_frames,
          silence_frames |-> p.silence_frames + 1]

(* process_audio, lines 271-283: the speech state after one frame. *)
process_audio(p, vad_prob) ==
    IF vad_prob >= VAD_THRESHOLD
    THEN [is_speech |-> IF p.speech_frames + 1 >= min_speech_frames
                        THEN TRUE ELSE p.is_speech,
          speech_frames |-> p.speech_frames + 1,
          silence_frames |-> 0]
    ELSE [is_speech |-> IF p.silence_frames + 1 >= min_silence_frames
                        THEN FALSE ELSE p.is_speech,
          speech_frames |-> 0,
          silence_frames |-> p.silence_frames + 1]

(* process_audio_base64: b64decode raises on text that is not base64 and   *)
(* the handler answers is_speech False, the processor untouched.           *)
process_audio_base64(p, audio) ==
    IF audio.b64 = "valid"
    THEN [processor |-> process_audio(p, audio.vad_prob),
          is_speech |-> process_audio(p, audio.vad_prob).is_speech,
          error |-> FALSE]
    ELSE [processor |-> p, is_speech |-> FALSE, error |-> TRUE]

Within(p) == p.speech_frames <= MaxSpeechRun /\ p.silence_frames <= MaxSilenceRun

(* The frame is voiced: the classification the debounce counts. *)
Voiced(vad_prob) == vad_prob >= VAD_THRESHOLD

(* The run of equally classified frames that the latest frame extends.     *)
RunAfter(run, voiced) ==
    IF run.len > 0 /\ run.voiced = voiced
    THEN [run EXCEPT !.len = @ + 1]
    ELSE [voiced |-> voiced, len |-> 1]

(* One request through the module-level process_audio_base64: the shared   *)
(* audio_processor takes the frame, whoever submitted it.                  *)
SharedProcess(c, op, audio, result) ==
    /\ Within(result.processor)
    /\ ap' = result.processor
    /\ alone' = IF c = "this" THEN process_audio_base64(alone, audio).processor
                ELSE alone
    /\ Within(alone')
    /\ vad_run' = IF audio.b64 = "valid" THEN RunAfter(vad_run, Voiced(audio.vad_prob))
                  ELSE vad_run
    /\ vlast' = [VQuiet EXCEPT !.op = op, !.caller = c,
                               !.valid = (audio.b64 = "valid"),
                               !.before = ap.is_speech,
                               !.is_speech = result.is_speech]
    /\ UNCHANGED bp

(* A request without audio is answered 400 before anything is processed. *)
NoAudio(c, op) ==
    /\ vlast' = [VQuiet EXCEPT !.op = op, !.caller = c]
    /\ UNCHANGED <<ap, bp, alone, vad_run>>

(* POST /api/voice/process *)
process_voice(c) ==
    /\ Ready
    /\ vlast = VQuiet
    /\ started[Self]
    /\ \E audio \in Submissions :
          IF audio.b64 = "missing"
          THEN NoAudio(c, "process")
          ELSE SharedProcess(c, "process", audio, process_audio_base64(ap, audio))
    /\ UNCHANGED <<configVars, cryptoVars, relayVars, threadVars>>

(* transmit_voice with the speech test removed. *)
AdmitsAll(result) == TRUE

(* transmit_voice: "if processed_result.get('is_speech', False)". *)
Admits(result) == result.is_speech

(* POST /api/voice/transmit: the audio goes through the shared processor;  *)
(* when speech is detected the message is saved (save_message returns None *)
(* on a database error and the route goes on) and handed to                *)
(* mesh_relay.send_voice_data.                                             *)
transmit_voice(c) ==
    /\ Ready
    /\ vlast = VQuiet
    /\ started[Self]
    /\ \E audio \in Submissions, recipient_id \in Recipients :
          IF audio.b64 = "missing"
          THEN NoAudio(c, "transmit") /\ UNCHANGED relayVars
          ELSE /\ SharedProcess(c, "transmit", audio, process_audio_base64(ap, audio))
               /\ IF Admits(process_audio_base64(ap, audio))
                  THEN Originate(Self, "send_voice", "voice", VOICE_TTL,
                                 recipient_id, TextContent("UklGRg=="))
                  ELSE UNCHANGED relayVars
    /\ UNCHANGED <<configVars, cryptoVars, threadVars>>

(* The response has gone out; the next request may come. *)
Return ==
    /\ ~Ready \/ vlast # VQuiet
    /\ last' = Quiet
    /\ vlast' = VQuiet
    /\ UNCHANGED <<hosts, batman_available, nodes, processed_messages, started,
                   sleeping, now, network, dispatched, flood>>
    /\ UNCHANGED <<ap, bp, alone, vad_run>>
    /\ UNCHANGED <<configVars, cryptoVars, threadVars>>

(* The server behind its voice routes: the relay is started before the     *)
(* first request is served, then requests come one at a time.              *)
VoiceNext ==
    \/ Start(Self)
    \/ process_voice("this")
    \/ transmit_voice("this")
    \/ Return

SpecVoice == Init /\ [][VoiceNext]_vars

(* A frame went into the shared processor in this step. *)
FrameStep == vad_run' # vad_run

(* C12: onset debounce.  While the processor is in SILENCE, a frame leaves *)
(* is_speech false unless it is the 10th frame of a run of consecutive     *)
(* voiced frames; on that frame, and on no earlier one, is_speech becomes  *)
(* true, and the value returned for the frame is the new state.            *)
OnsetDebounce ==
    [][ (FrameStep /\ ~ap.is_speech) =>
           /\ ap'.is_speech <=> (vad_run'.voiced /\ vad_run'.len = 10)
           /\ vlast'.is_speech = ap'.is_speech
           /\ (vad_run'.voiced /\ vad_run'.len <= 9) => ~ap'.is_speech ]_vars

OnsetDebounceWitness ==
    /\ vlast.valid /\ ~vlast.before /\ vlast.is_speech
    /\ vad_run = [voiced |-> TRUE, len |-> 10]
    /\ ap.is_speech

(* C13: offset debounce.  While the processor is in SPEECH, a frame leaves *)
(* is_speech true unless it is the 20th frame of a run of consecutive      *)
(* unvoiced frames, on which it becomes false; after every frame the       *)
(* voiced count is the length of the current voiced run and the unvoiced   *)
(* count the length of the current unvoiced run, so a frame of the         *)
(* opposite classification resets the other count to 0.                    *)
OffsetDebounce ==
    [][ FrameStep =>
           /\ ap.is_speech =>
                 /\ ~ap'.is_speech <=> (~vad_run'.voiced /\ vad_run'.len = 20)
                 /\ vlast'.is_speech = ap'.is_speech
           /\ ap'.speech_frames = IF vad_run'.voiced THEN vad_run'.len ELSE 0
           /\ ap'.silence_frames = IF vad_run'.voiced THEN 0 ELSE vad_run'.len ]_vars

OffsetDebounceWitness ==
    /\ vlast.valid /\ vlast.before /\ ~vlast.is_speech
    /\ vad_run = [voiced |-> FALSE, len |-> 20]
    /\ ~ap.is_speech

(* A step of POST /api/voice/transmit. *)
TransmitStep == vlast.op = "" /\ vlast'.op = "transmit"

(* C14: voice admission.  The relay originates a voice message only in a   *)
(* transmit request whose own process step returned is_speech = true, and  *)
(* a transmit request whose process step returned is_speech = false        *)
(* leaves the relay as it was: nothing is sent and no id is recorded.      *)
VoiceAdmission ==
    [][ /\ (last'.op = "send_voice" /\ last' # last) =>
              (TransmitStep /\ vlast'.valid /\ vlast'.is_speech)
        /\ (TransmitStep /\ ~vlast'.is_speech) =>
              (network' = network /\ processed_messages' = processed_messages
               /\ last' = last) ]_vars

VoiceAdmissionWitness ==
    /\ vlast.op = "transmit" /\ vlast.valid /\ vlast.is_speech
    /\ last.op = "send_voice" /\ last.message.type = "voice"
    /\ \E a \in last.reply : a.ok

-----------------------------------------------------------------------------
(* AudioBufferProcessor.process_buffer, on buffers known by their length   *)
(* in bytes and by the voice-activity probability of each frame.           *)

(* bound: the whole frames in one buffer. *)
MaxBufFrames == 2

Remainders == {0, 1, 2, FRAME_SIZE - 1, FRAME_SIZE, frame_size_bytes - 2, frame_size_bytes - 1}
BufferLengths == { f * frame_size_bytes + r : f \in 0..MaxBufFrames, r \in Remainders }

(* processed_frame[:len(frame)] appended whole. *)
SliceWhole(len, k) == len

(* processed_frame[:k], by its length. *)
Slice(len, k) == IF k < len THEN k ELSE len

(* The calls of self.processor.process_audio that one buffer makes. *)
FramesOf(len) ==
    (len \div frame_size_bytes) + (IF len % frame_size_bytes > 0 THEN 1 ELSE 0)

RECURSIVE Feed(_, _)
Feed(p, probs) ==
    IF probs = <<>> THEN p ELSE Feed(process_audio(p, Head(probs)), Tail(probs))

(* The bytes of the remainder after padding, processing and the cut. *)
Remaining(remaining_bytes) ==
    IF remaining_bytes > 0
    THEN Slice(Denoised(remaining_bytes + (frame_size_bytes - remaining_bytes)),
               remaining_bytes)
    ELSE 0

process_buffer(p, len, probs) ==
    [processor |-> Feed(p, probs),
     returned |-> (len \div frame_size_bytes) * Denoised(frame_size_bytes)
                  + Remaining(len % frame_size_bytes)]

(* process_audio_buffer (module level): buffer_processor takes the buffer. *)
process_audio_buffer ==
    /\ Ready
    /\ vlast = VQuiet
    /\ \E len \in BufferLengths :
         \E probs \in [1..FramesOf(len) -> VadProbs] :
            /\ Within(process_buffer(bp, len, probs).processor)
            /\ bp' = process_buffer(bp, len, probs).processor
            /\ vlast' = [VQuiet EXCEPT !.op = "buffer", !.buffer = len,
                           !.returned = process_buffer(bp, len, probs).returned]
    /\ UNCHANGED <<ap, alone, vad_run>>
    /\ UNCHANGED <<configVars, cryptoVars, relayVars, threadVars>>

BufferNext == process_audio_buffer \/ Return

SpecBuffer == Init /\ [][BufferNext]_vars

(* C15: process_buffer returns as many bytes as it was given, whether the  *)
(* buffer is empty, a whole number of 960-byte frames, or ends in a        *)
(* remainder of 1..959 bytes.                                              *)
BufferLengthPreserved ==
    vlast.op = "buffer" => vlast.returned = vlast.buffer

BufferLengthPreservedWitness ==
    /\ vlast.op = "buffer"
    /\ vlast.buffer > 960 /\ vlast.buffer % 960 = 959
    /\ vlast.returned = vlast.buffer
    /\ bp # NewAudioProcessor

-----------------------------------------------------------------------------
(* Two callers of the module-level process_audio_base64: this stream's     *)
(* frames and another caller's frames go through the one audio_processor.  *)
SharedNext ==
    \/ Start(Self)
    \/ \E c \in Callers : process_voice(c)
    \/ Return

SpecShared == Init /\ [][SharedNext]_vars

(* C16: the is_speech value returned for a frame of this stream is the     *)
(* value a processor fed this stream's frames alone returns for it; the    *)
(* frames of another caller do not change it.                              *)
VadDeterminism ==
    (vlast.caller = "this" /\ vlast.valid) => vlast.is_speech = alone.is_speech

-----------------------------------------------------------------------------
(* Peer liveness: the table of one relay (Spec) and three isolated nodes.  *)

(* get_nodes(): the entries of the table whose is_active is true. *)
get_nodes(n) == { nodes[n][p] : p \in { q \in DOMAIN nodes[n] : nodes[n][q].is_active } }

(* The handler has just run on a message that peer p originated. *)
HeardFrom(p) ==
    /\ Dispatches
    /\ last.message.sender_id = p
    /\ p # last.node
    /\ p \in DOMAIN nodes[last.node]

(* C17: a peer is inactive only if nothing it originated has been seen for *)
(* 60 s: at the moment the node has handled a message of any kind from a   *)
(* peer of its table, that peer is active.                                 *)
TrafficKeepsActive ==
    \A p \in NodeIds : HeardFrom(p) => nodes[last.node][p].is_active

(* C18: a peer from which nothing has been seen for more than              *)
(* INACTIVE_THRESHOLD seconds is reported inactive: its entry has          *)
(* is_active = false and get_nodes() does not contain it.                  *)
StaleReportedInactive ==
    \A p \in DOMAIN nodes[Self] \ {Self} :
        now - nodes[Self][p].last_seen > INACTIVE_THRESHOLD =>
            /\ ~nodes[Self][p].is_active
            /\ \A e \in get_nodes(Self) : e.id # p

-----------------------------------------------------------------------------
(* Three nodes that start with empty tables and run discovery on their     *)
(* own: every datagram sent is delivered, none is lost.                    *)

DISCOVERY_PERIOD == 30

(* The clock advances once all three nodes are up. *)
IsolatedTick == (\A n \in NodeIds : started[n]) /\ Tick

IsolatedNext ==
    \/ \E n \in NodeIds : Start(n)
    \/ \E n \in NodeIds : Maintain(n)
    \/ IsolatedTick
    \/ \E n \in NodeIds : ReceiveNet(n)
    \/ Forget

SpecIsolated == MeshInit /\ [][IsolatedNext]_vars

(* get_nodes() of n holds the other two nodes, active. *)
Converged(n) ==
    \A p \in NodeIds \ {n} : \E e \in get_nodes(n) : e.id = p /\ e.is_active

(* Two discovery periods have passed since the three nodes started, every  *)
(* node has run its maintenance cycle since, and every datagram sent has   *)
(* been received and handled.                                              *)
Settled ==
    /\ now >= Epoch0 + 2 * DISCOVERY_PERIOD
    /\ \A n \in NodeIds : started[n] /\ sleeping[n]
    /\ network = {}
    /\ Ready

(* C19: three nodes that start with empty tables and lose no datagram each *)
(* list the other two as active peers within 2 x DISCOVERY_PERIOD.         *)
DiscoveryConverges == Settled => \A n \in NodeIds : Converged(n)

(* C20: get_nodes() returns exactly the entries whose is_active is true,   *)
(* and none of them carries the node's own id, whatever discovery and      *)
(* routing messages have been received.                                    *)
SnapshotExcludesSelf ==
    /\ get_nodes(Self) =
          { e \in { nodes[Self][p] : p \in DOMAIN nodes[Self] } : e.is_active }
    /\ \A e \in get_nodes(Self) : e.id # Self

-----------------------------------------------------------------------------
(* C21: no step removes an entry from a peer table: the ids a node knows   *)
(* only grow.  A maintenance cycle changes nothing of an entry but its     *)
(* is_active flag, which it may set to false.                              *)
PeersNeverRemoved ==
    [][ \A n \in NodeIds :
          /\ DOMAIN nodes[n] \subseteq DOMAIN nodes'[n]
          /\ last'.op = "maintain" =>
                \A p \in DOMAIN nodes[n] :
                    \/ nodes'[n][p] = nodes[n][p]
                    \/ nodes'[n][p] = [nodes[n][p] EXCEPT !.is_active = FALSE] ]_vars

PeersNeverRemovedWitness ==
    /\ last.op = "maintain"
    /\ \E p \in DOMAIN nodes[Self] :
          /\ ~nodes[Self][p].is_active
          /\ now - nodes[Self][p].last_seen > INACTIVE_THRESHOLD
          /\ nodes[Self][p].public_key = public_key(p)

-----------------------------------------------------------------------------
(* start() step by step, as run by the first HTTP requests (app.py,        *)
(* before_first_request) and by a caller holding the relay object.         *)

HttpCallers == {"r1", "r2"}

SetCall(c, pc, raised) == calls' = [calls EXCEPT ![c] = [pc |-> pc, raised |-> raised]]

(* Thread.start(): RuntimeError("threads can only be started once") on a   *)
(* thread that has been started.                                           *)
ThreadStartRaises(thread) == thread.launches >= 1
Launched(thread) == [thread EXCEPT !.pc = "loop", !.launches = @ + 1]

(* before_first_request: "if not mesh_relay_started". *)
before_first_request(c) ==
    /\ c \in HttpCallers
    /\ calls[c].pc = "idle"
    /\ SetCall(c, IF mesh_relay_started THEN "served" ELSE "start", FALSE)
    /\ UNCHANGED <<running, socket_open, receiver_thread, maintenance_thread,
                   mesh_relay_started, seen_at>>
    /\ UNCHANGED <<configVars, cryptoVars, relayVars, voiceVars>>

(* relay.start() called on the object. *)
call_start(c) ==
    /\ c \notin HttpCallers
    /\ calls[c].pc = "idle"
    /\ SetCall(c, "start", FALSE)
    /\ UNCHANGED <<running, socket_open, receiver_thread, maintenance_thread,
                   mesh_relay_started, seen_at>>
    /\ UNCHANGED <<configVars, cryptoVars, relayVars, voiceVars>>

(* start(), line 88: self.receiver_thread.start() *)
start_receiver(c) ==
    /\ calls[c].pc = "start"
    /\ IF ThreadStartRaises(receiver_thread)
       THEN SetCall(c, "failed", TRUE) /\ UNCHANGED receiver_thread
       ELSE SetCall(c, "start_maintenance", FALSE)
            /\ receiver_thread' = Launched(receiver_thread)
    /\ UNCHANGED <<running, socket_open, maintenance_thread, mesh_relay_started, seen_at>>
    /\ UNCHANGED <<configVars, cryptoVars, relayVars, voiceVars>>

(* start(), line 89: self.maintenance_thread.start() *)
start_maintenance(c) ==
    /\ calls[c].pc = "start_maintenance"
    /\ IF ThreadStartRaises(maintenance_thread)
       THEN SetCall(c, "failed", TRUE) /\ UNCHANGED maintenance_thread
       ELSE SetCall(c, "send_discovery", FALSE)
            /\ maintenance_thread' = Launched(maintenance_thread)
    /\ UNCHANGED <<running, socket_open, receiver_thread, mesh_relay_started, seen_at>>
    /\ UNCHANGED <<configVars, cryptoVars, relayVars, voiceVars>>

(* start(), line 90: self._send_discovery(); start() returns. *)
start_discovery(c) ==
    /\ calls[c].pc = "send_discovery"
    /\ start_relay(Self)
    /\ SetCall(c, IF c \in HttpCallers THEN "started" ELSE "returned", FALSE)
    /\ UNCHANGED <<running, socket_open, receiver_thread, maintenance_thread,
                   mesh_relay_started, seen_at>>
    /\ UNCHANGED <<configVars, cryptoVars, voiceVars>>

(* before_first_request: "mesh_relay_started = True" *)
set_started(c) ==
    /\ calls[c].pc = "started"
    /\ mesh_relay_started' = TRUE
    /\ SetCall(c, "served", FALSE)
    /\ UNCHANGED <<running, socket_open, receiver_thread, maintenance_thread, seen_at>>
    /\ UNCHANGED <<configVars, cryptoVars, relayVars, voiceVars>>

StartNext ==
    \/ \E c \in CallerIds : before_first_request(c)
    \/ \E c \in CallerIds : call_start(c)
    \/ \E c \in CallerIds : start_receiver(c)
    \/ \E c \in CallerIds : start_maintenance(c)
    \/ \E c \in CallerIds : start_discovery(c)
    \/ \E c \in CallerIds : set_started(c)

SpecStart == Init /\ [][StartNext]_vars

(* C22: start() is idempotent: however the calls of start() are ordered or *)
(* interleaved, none of them raises, and each of the two threads is        *)
(* launched at most once.                                                  *)
StartIdempotent ==
    /\ \A c \in CallerIds : ~calls[c].raised
    /\ receiver_thread.launches <= 1
    /\ maintenance_thread.launches <= 1

-----------------------------------------------------------------------------
(* The two threads of a relay and stop(), step by step.                    *)

SLEEP_SLICES == 30

(* A receive loop that a failure in the handler would leave. *)
EscapesOnError(event) == event \in {"decrypt_error", "decode_error", "handler_error"}

(* An exception that neither _handle_message (except Exception, line 175)  *)
(* nor _receive_messages (line 144) catches: there is none.                *)
Escapes(event) == FALSE

(* The datagrams on which the handler sends nothing. *)
FaultDatagrams ==
    { d \in ExoDatagrams :
        ~decrypt_message(d.data, private_key(Self)).ok
        \/ ~decrypt_message(d.data, private_key(Self)).val.valid }

(* _receive_messages: "while self.running", then recvfrom.  On a closed    *)
(* socket recvfrom raises at once, the error is swallowed (running is      *)
(* tested before logging) and the loop comes back to its test.             *)
rx_check ==
    /\ receiver_thread.pc = "loop"
    /\ receiver_thread' =
          [receiver_thread EXCEPT !.pc = IF ~running THEN "exited"
                                         ELSE IF socket_open THEN "recvfrom"
                                         ELSE "loop"]
    /\ UNCHANGED <<running, socket_open, maintenance_thread, mesh_relay_started,
                   calls, seen_at>>
    /\ UNCHANGED <<configVars, cryptoVars, relayVars, voiceVars>>

(* recvfrom returns a datagram of D and _handle_message runs on it. *)
rx_receive(D) ==
    /\ receiver_thread.pc = "recvfrom"
    /\ \E d \in D : handle_datagram(Self, d.data, d.addr, network)
    /\ receiver_thread' =
          [receiver_thread EXCEPT !.pc = IF Escapes(last'.event) THEN "exited"
                                         ELSE "loop"]
    /\ UNCHANGED <<running, socket_open, maintenance_thread, mesh_relay_started,
                   calls, seen_at>>
    /\ UNCHANGED <<configVars, cryptoVars, voiceVars>>

(* The socket was closed under a blocked recvfrom.  What the call does     *)
(* then is the platform's choice: it may raise (this step) or stay blocked *)
(* until a datagram arrives.                                               *)
rx_unblocked ==
    /\ receiver_thread.pc = "recvfrom"
    /\ ~socket_open
    /\ receiver_thread' = [receiver_thread EXCEPT !.pc = "loop"]
    /\ UNCHANGED <<running, socket_open, maintenance_thread, mesh_relay_started,
                   calls, seen_at>>
    /\ UNCHANGED <<configVars, cryptoVars, relayVars, voiceVars>>

(* _maintain_nodes: "while self.running" *)
mt_check ==
    /\ maintenance_thread.pc = "loop"
    /\ maintenance_thread' =
          [maintenance_thread EXCEPT !.pc = IF running THEN "cycle" ELSE "exited"]
    /\ UNCHANGED <<running, socket_open, receiver_thread, mesh_relay_started,
                   calls, seen_at>>
    /\ UNCHANGED <<configVars, cryptoVars, relayVars, voiceVars>>

(* The body of the loop up to the sleep. *)
mt_cycle ==
    /\ maintenance_thread.pc = "cycle"
    /\ maintain_cycle(Self)
    /\ maintenance_thread' = [maintenance_thread EXCEPT !.pc = "sleep", !.slices = 0]
    /\ UNCHANGED <<running, socket_open, receiver_thread, mesh_relay_started,
                   calls, seen_at>>
    /\ UNCHANGED <<configVars, cryptoVars, voiceVars>>

(* The body raises: "except Exception", then time.sleep(5). *)
mt_cycle_error ==
    /\ maintenance_thread.pc = "cycle"
    /\ maintenance_thread' = [maintenance_thread EXCEPT !.pc = "error_sleep"]
    /\ UNCHANGED <<running, socket_open, receiver_thread, mesh_relay_started,
                   calls, seen_at>>
    /\ UNCHANGED <<configVars, cryptoVars, relayVars, voiceVars>>

(* time.sleep(5) returns. *)
mt_error_wake ==
    /\ maintenance_thread.pc = "error_sleep"
    /\ maintenance_thread' = [maintenance_thread EXCEPT !.pc = "loop"]
    /\ UNCHANGED <<running, socket_open, receiver_thread, mesh_relay_started,
                   calls, seen_at>>
    /\ UNCHANGED <<configVars, cryptoVars, relayVars, voiceVars>>

(* "for _ in range(30): if not self.running: break; time.sleep(1)" *)
mt_sleep ==
    /\ maintenance_thread.pc = "sleep"
    /\ IF running /\ maintenance_thread.slices < SLEEP_SLICES
       THEN /\ maintenance_thread' = [maintenance_thread EXCEPT !.slices = @ + 1]
            /\ UNCHANGED sleeping
       ELSE /\ maintenance_thread' = [maintenance_thread EXCEPT !.pc = "loop"]
            /\ sleeping' = [sleeping EXCEPT ![Self] = FALSE]
    /\ UNCHANGED <<hosts, batman_available, nodes, processed_messages, started,
                   now, network, dispatched, flood, last>>
    /\ UNCHANGED <<running, socket_open, receiver_thread, mesh_relay_started,
                   calls, seen_at>>
    /\ UNCHANGED <<configVars, cryptoVars, voiceVars>>

(* stop(), line 95: self.running = False *)
stop_flag(c) ==
    /\ calls[c].pc = "returned"
    /\ running' = FALSE
    /\ SetCall(c, "close", FALSE)
    /\ UNCHANGED <<socket_open, receiver_thread, maintenance_thread,
                   mesh_relay_started, seen_at>>
    /\ UNCHANGED <<configVars, cryptoVars, relayVars, voiceVars>>

(* stop(), line 96: self.socket.close() *)
stop_close(c) ==
    /\ calls[c].pc = "close"
    /\ socket_open' = FALSE
    /\ SetCall(c, "join_receiver", FALSE)
    /\ UNCHANGED <<running, receiver_thread, maintenance_thread,
                   mesh_relay_started, seen_at>>
    /\ UNCHANGED <<configVars, cryptoVars, relayVars, voiceVars>>

(* stop(), line 97: self.receiver_thread.join() returns *)
stop_join_receiver(c) ==
    /\ calls[c].pc = "join_receiver"
    /\ receiver_thread.pc = "exited"
    /\ SetCall(c, "join_maintenance", FALSE)
    /\ UNCHANGED <<running, socket_open, receiver_thread, maintenance_thread,
                   mesh_relay_started, seen_at>>
    /\ UNCHANGED <<configVars, cryptoVars, relayVars, voiceVars>>

(* stop(), line 98: self.maintenance_thread.join() returns; stop() returns *)
stop_join_maintenance(c) ==
    /\ calls[c].pc = "join_maintenance"
    /\ maintenance_thread.pc = "exited"
    /\ SetCall(c, "stopped", FALSE)
    /\ UNCHANGED <<running, socket_open, receiver_thread, maintenance_thread,
                   mesh_relay_started, seen_at>>
    /\ UNCHANGED <<configVars, cryptoVars, relayVars, voiceVars>>

(* What the caller of start() and stop() does. *)
CallerStep ==
    \/ call_start("api")
    \/ start_receiver("api")
    \/ start_maintenance("api")
    \/ start_discovery("api")
    \/ stop_flag("api")
    \/ stop_close("api")
    \/ stop_join_receiver("api")
    \/ stop_join_maintenance("api")

MaintenanceStep ==
    \/ mt_check
    \/ mt_cycle
    \/ mt_cycle_error
    \/ mt_error_wake
    \/ mt_sleep

StopNext ==
    \/ CallerStep
    \/ rx_check
    \/ rx_receive(FaultDatagrams)
    \/ rx_unblocked
    \/ MaintenanceStep
    \/ Forget

(* A thread that can take a step is scheduled; whether a datagram arrives, *)
(* and whether a blocked recvfrom notices the close, is left open.         *)
SpecStop ==
    /\ Init
    /\ [][StopNext]_vars
    /\ WF_vars(CallerStep)
    /\ WF_vars(rx_check)
    /\ WF_vars(MaintenanceStep)
    /\ WF_vars(Forget)

(* C23: shutdown terminates: once stop() has set the running flag to       *)
(* false, stop() returns, and it returns only after both threads have left *)
(* their loops.                                                            *)
StopTerminates ==
    /\ [](calls["api"].pc = "stopped" =>
             /\ ~running
             /\ receiver_thread.pc = "exited"
             /\ maintenance_thread.pc = "exited")
    /\ (calls["api"].pc = "close") ~> (calls["api"].pc = "stopped")

-----------------------------------------------------------------------------
(* Whether a send of `message' from the node of the last step to its peer  *)
(* p raises nothing.                                                       *)
CanSendTo(p, message) ==
    encrypt_message(JsonDumps(message), nodes[last.node][p].public_key, 1).ok

ActivePeers ==
    { p \in DOMAIN nodes[last.node] : nodes[last.node][p].is_active } \ {last.node}

(* The last step sent one datagram per peer, not one to the broadcast      *)
(* address.                                                                *)
PerPeerBroadcast ==
    /\ \/ Dispatches /\ last.message.type = "discovery"
                     /\ last.message.sender_id # last.node
       \/ last.op \in {"start", "maintain"}
       \/ last.op \in {"send_text", "send_voice"} /\ last.message.recipient_id = "broadcast"
    /\ "broadcast" \notin PeersOf(last.reply)

(* C24: per-peer send failures are isolated: in a relay and in a per-peer  *)
(* broadcast the peers that are sent the message are exactly the target    *)
(* peers whose own send succeeds, whatever happens to the sends to the     *)
(* other targets; and a failing send does not fail the handler or the      *)
(* caller.                                                                 *)
SendFailuresIsolated ==
    /\ (Dispatches /\ last.message.ttl > 1) =>
          PeersOf({ a \in last.relay : a.ok }) =
             { p \in ActiveOthers : CanSendTo(p, Forwarded(last.node, last.message)) }
    /\ PerPeerBroadcast =>
          /\ PeersOf(last.reply) = ActivePeers
          /\ \A a \in last.reply : a.ok = CanSendTo(a.peer, a.message)
    /\ (\E a \in last.relay \cup last.reply : ~a.ok) => last.event \in {"dispatched", "sent"}

(* A relay to two peers of which one send fails and the other succeeds. *)
SendFailuresIsolatedWitness ==
    /\ Dispatches
    /\ last.message.ttl > 1
    /\ \E a, b \in last.relay : a.ok /\ ~b.ok

-----------------------------------------------------------------------------
(* The receive thread of a started relay, fed every kind of datagram. *)
ThreadsNext ==
    \/ call_start("api")
    \/ start_receiver("api")
    \/ start_maintenance("api")
    \/ start_discovery("api")
    \/ rx_check
    \/ rx_receive(ExoDatagrams)
    \/ Forget

SpecThreads == Init /\ [][ThreadsNext]_vars

(* C25: no datagram failure stops the relay: while running is true the     *)
(* receive thread, once started, is at the test of its loop or waiting in  *)
(* recvfrom for the next datagram, whatever the datagrams it has handled   *)
(* did: failed to decrypt, failed to decode, or made their handler fail.   *)
ReceiveLoopSurvives ==
    (running /\ receiver_thread.launches >= 1) =>
        receiver_thread.pc \in {"loop", "recvfrom"}

(* The thread waits for the next datagram after one of each failure. *)
ReceiveLoopSurvivesWitness ==
    /\ Receives
    /\ last.event = "handler_error"
    /\ receiver_thread.pc = "recvfrom"
    /\ running
    /\ \E i, j \in dispatched[Self] : i # j

-----------------------------------------------------------------------------
(* The dedup set over a long run.  seen_at remembers, for every id of the  *)
(* node's processed_messages, the time at which it was added.              *)
MaxGcTicks == 1

Recorded(seen, old, new) ==
    [id \in new |-> IF id \in old /\ id \in DOMAIN seen THEN seen[id] ELSE now]

Records ==
    /\ seen_at' = Recorded(seen_at, processed_messages[Self], processed_messages'[Self])
    /\ UNCHANGED <<running, socket_open, receiver_thread, maintenance_thread,
                   mesh_relay_started, calls>>
    /\ UNCHANGED <<configVars, cryptoVars, voiceVars>>

gc_start == start_relay(Self) /\ Records

(* Text broadcasts of B, one per message id. *)
GcDatagrams ==
    { [data |-> Seal(JsonDumps(Message(i, "B", "broadcast", "text", TextContent("hello"),
                                       Epoch0, DEFAULT_TTL)),
                     public_key(Self)),
       addr |-> AddrOf("B")] : i \in MsgIds }

gc_receive ==
    /\ \E d \in GcDatagrams : handle_datagram(Self, d.data, d.addr, network)
    /\ Records

gc_send ==
    /\ Originate(Self, "send_text", "text", DEFAULT_TTL, "broadcast", TextContent("hello"))
    /\ Records

gc_maintain == maintain_cycle(Self) /\ Records

(* More than the retention time passes; the maintenance thread wakes. *)
GcTick ==
    /\ Ready
    /\ now < Epoch0 + MaxGcTicks * (DEDUP_RETENTION + 1)
    /\ now' = now + DEDUP_RETENTION + 1
    /\ sleeping' = [n \in NodeIds |-> FALSE]
    /\ UNCHANGED <<hosts, batman_available, nodes, processed_messages, started,
                   network, dispatched, flood, last>>
    /\ UNCHANGED <<configVars, cryptoVars, voiceVars, threadVars>>

GcNext ==
    \/ gc_start
    \/ gc_receive
    \/ gc_send
    \/ gc_maintain
    \/ GcTick
    \/ Forget

SpecGC == Init /\ [][GcNext]_vars

(* C26: the dedup memory is bounded: when a maintenance cycle has run, no  *)
(* id that was added more than 300 s before is left in the dedup set.      *)
DedupBounded ==
    (last.op = "maintain" /\ last.node = Self) =>
        \A id \in processed_messages[Self] : now - seen_at[id] <= DEDUP_RETENTION

-----------------------------------------------------------------------------
(* The maintenance cycle statement by statement, next to the receive       *)
(* thread.  No lock guards self.nodes or self.processed_messages.  A dict  *)
(* or set iterator remembers the size of its container and raises          *)
(* RuntimeError from its next step when the size has changed.              *)

MarkOne(tbl, p, current_time) ==
    [tbl EXCEPT ![p].is_active =
        IF current_time - tbl[p].last_seen > INACTIVE_THRESHOLD THEN FALSE ELSE @]

(* A text broadcast of B under two ids, and a discovery message of B. *)
RaceDatagrams ==
    { [data |-> Seal(JsonDumps(m), public_key(Self)), addr |-> AddrOf("B")] :
        m \in { Message(i, "B", "broadcast", "text", TextContent("hello"),
                        Epoch0, DEFAULT_TTL) : i \in {3, 4} }
              \cup { Message(2, "B", "broadcast", "discovery",
                             DiscoveryContent(PORT, public_key("B")), Epoch0, 1) } }

RaceFrame ==
    /\ UNCHANGED <<running, socket_open, receiver_thread, mesh_relay_started,
                   calls, seen_at>>
    /\ UNCHANGED <<configVars, cryptoVars, voiceVars>>

(* The receive thread handles one datagram; `added' notes the ids it puts  *)
(* into processed_messages while the clean-up is under way.                *)
race_receive ==
    /\ receiver_thread.pc = "recvfrom"
    /\ \E d \in RaceDatagrams : handle_datagram(Self, d.data, d.addr, network)
    /\ receiver_thread' = [receiver_thread EXCEPT !.pc = "loop"]
    /\ maintenance_thread' =
          [maintenance_thread EXCEPT !.added =
              IF maintenance_thread.pc \in {"gc", "gc_store"}
              THEN @ \cup (processed_messages'[Self] \ processed_messages[Self])
              ELSE @]
    /\ UNCHANGED <<running, socket_open, mesh_relay_started, calls, seen_at>>
    /\ UNCHANGED <<configVars, cryptoVars, voiceVars>>

(* line 308: for node_id, node in self.nodes.items() *)
scan_begin ==
    /\ maintenance_thread.pc = "cycle"
    /\ maintenance_thread' =
          [maintenance_thread EXCEPT !.pc = "scan",
                                     !.size = Cardinality(DOMAIN nodes[Self]),
                                     !.todo = DOMAIN nodes[Self],
                                     !.kept = {}, !.added = {}]
    /\ UNCHANGED relayVars
    /\ RaceFrame

(* The next step of the iterator, and lines 309-312 on the entry it gives. *)
scan_next ==
    /\ maintenance_thread.pc = "scan"
    /\ IF Cardinality(DOMAIN nodes[Self]) # maintenance_thread.size
       THEN /\ maintenance_thread' = [maintenance_thread EXCEPT !.pc = "scan_failed"]
            /\ UNCHANGED nodes
       ELSE IF maintenance_thread.todo = {}
       THEN /\ maintenance_thread' = [maintenance_thread EXCEPT !.pc = "discovery"]
            /\ UNCHANGED nodes
       ELSE \E p \in maintenance_thread.todo :
            /\ maintenance_thread' = [maintenance_thread EXCEPT !.todo = @ \ {p}]
            /\ nodes' = [nodes EXCEPT ![Self] = MarkOne(@, p, now)]
    /\ UNCHANGED <<hosts, batman_available, processed_messages, started, sleeping,
                   now, network, dispatched, flood, last>>
    /\ RaceFrame

(* line 315: self._send_discovery() *)
cycle_discovery ==
    /\ maintenance_thread.pc = "discovery"
    /\ Ready
    /\ \E id \in Uuid4(Self, {}), sendto_ok \in SendtoOutcomes(Self) :
          /\ processed_messages' = [processed_messages EXCEPT ![Self] = @ \cup {id}]
          /\ network' = network \cup
                Sent(_broadcast_message(Self, nodes[Self], DiscoveryMessage(Self, id),
                                        batman_available[Self], sendto_ok))
          /\ last' = [Quiet EXCEPT !.node = Self, !.op = "discovery", !.event = "sent",
                         !.message = DiscoveryMessage(Self, id),
                         !.reply = Obs(_broadcast_message(Self, nodes[Self],
                                          DiscoveryMessage(Self, id),
                                          batman_available[Self], sendto_ok))]
    /\ maintenance_thread' = [maintenance_thread EXCEPT !.pc = "gc_begin"]
    /\ UNCHANGED <<hosts, batman_available, nodes, started, sleeping, now,
                   dispatched, flood>>
    /\ RaceFrame

(* line 318: the comprehension starts to iterate self.processed_messages *)
gc_begin ==
    /\ maintenance_thread.pc = "gc_begin"
    /\ maintenance_thread' =
          [maintenance_thread EXCEPT !.pc = "gc",
                                     !.size = Cardinality(processed_messages[Self]),
                                     !.todo = processed_messages[Self],
                                     !.kept = {}, !.added = {}]
    /\ UNCHANGED relayVars
    /\ RaceFrame

(* The next step of the set iterator, and the test of line 320. *)
gc_next ==
    /\ maintenance_thread.pc = "gc"
    /\ IF Cardinality(processed_messages[Self]) # maintenance_thread.size
       THEN maintenance_thread' = [maintenance_thread EXCEPT !.pc = "gc_failed"]
       ELSE IF maintenance_thread.todo = {}
       THEN maintenance_thread' = [maintenance_thread EXCEPT !.pc = "gc_store"]
       ELSE \E id \in maintenance_thread.todo :
               maintenance_thread' =
                  [maintenance_thread EXCEPT !.todo = @ \ {id},
                                             !.kept = @ \cup CleanUp({id}, now)]
    /\ UNCHANGED relayVars
    /\ RaceFrame

(* line 318: self.processed_messages = the set just built *)
gc_store ==
    /\ maintenance_thread.pc = "gc_store"
    /\ processed_messages' = [processed_messages EXCEPT ![Self] = maintenance_thread.kept]
    /\ maintenance_thread' =
          [maintenance_thread EXCEPT !.pc = "sleep", !.size = 0, !.todo = {}, !.kept = {}]
    /\ UNCHANGED <<hosts, batman_available, nodes, started, sleeping, now, network,
                   dispatched, flood, last>>
    /\ RaceFrame

(* lines 324-327: the sleep ends *)
cycle_wake ==
    /\ maintenance_thread.pc = "sleep"
    /\ maintenance_thread' = [maintenance_thread EXCEPT !.pc = "loop", !.added = {}]
    /\ UNCHANGED relayVars
    /\ RaceFrame

(* lines 329-331: the RuntimeError is logged, the rest of the cycle is  *)
(* skipped, and the loop resumes after time.sleep(5).                   *)
cycle_error_wake ==
    /\ maintenance_thread.pc \in {"scan_failed", "gc_failed"}
    /\ maintenance_thread' =
          [maintenance_thread EXCEPT !.pc = "loop", !.size = 0, !.todo = {},
                                     !.kept = {}, !.added = {}]
    /\ UNCHANGED relayVars
    /\ RaceFrame

RaceCycle ==
    \/ mt_check
    \/ scan_begin
    \/ scan_next
    \/ cycle_discovery
    \/ gc_begin
    \/ gc_next
    \/ gc_store
    \/ cycle_wake
    \/ cycle_error_wake

RaceNext ==
    \/ call_start("api")
    \/ start_receiver("api")
    \/ start_maintenance("api")
    \/ start_discovery("api")
    \/ rx_check
    \/ race_receive
    \/ RaceCycle
    \/ Forget

SpecRace == Init /\ [][RaceNext]_vars

(* C27: operations on the peer table are linearizable: the maintenance     *)
(* scan of the table is not aborted by an insert of the receive thread,    *)
(* and the cycle is not cut short by one.                                  *)
TableLinearizable == maintenance_thread.pc # "scan_failed"

(* C28: updates of the dedup set are mutually exclusive: the clean-up does *)
(* not fail because of an insert made while it runs, and when it is over   *)
(* every id inserted meanwhile is in the set, unless the retention rule    *)
(* excludes it.                                                            *)
DedupExclusive ==
    /\ maintenance_thread.pc # "gc_failed"
    /\ maintenance_thread.pc = "sleep" =>
          CleanUp(maintenance_thread.added, now) \subseteq processed_messages[Self]

-----------------------------------------------------------------------------
(* Records that json.loads and the Message constructor accept: all seven *)
(* fields are present; the kind and the ttl are whatever the sender wrote. *)
CodecMessages ==
    { Message(i, "B", "broadcast", type, TextContent("hello"), Epoch0, ttl) :
         i \in MsgIds, type \in {"text", "bogus"}, ttl \in {-1, 0, DEFAULT_TTL} }
      \cup { Message(2, "C", "broadcast", "discovery",
                     DiscoveryContent(PORT, public_key("C")), Epoch0, DEFAULT_TTL) }

CodecDatagrams ==
    { [data |-> Seal(JsonDumps(m), public_key(Self)), addr |-> AddrOf(m.sender_id)] :
         m \in CodecMessages }
      \cup { [data |-> Seal(NotJson, public_key(Self)), addr |-> AddrOf("B")] }

codec_receive ==
    /\ Ready
    /\ started[Self]
    /\ \E d \in CodecDatagrams : Handle(Self, d.data, d.addr, network)

CodecNext ==
    \/ Start(Self)
    \/ codec_receive
    \/ Forget

SpecCodec == Init /\ [][CodecNext]_vars

WellFormed(message) ==
    /\ message.type \in {"discovery", "routing", "text", "voice"}
    /\ message.ttl \in Nat

(* C29: codec validation: a decrypted record whose kind is not one of      *)
(* discovery, routing, text, voice, or whose ttl is not a non-negative     *)
(* integer, is rejected as a decode error: it is not put into the dedup   *)
(* set, not dispatched and not relayed, so that every record the handler   *)
(* dispatches is well formed.                                              *)
CodecValidates ==
    (Receives /\ last.event \in {"dispatched", "handler_error"}) =>
        WellFormed(last.message)

-----------------------------------------------------------------------------
(* What handling a discovery message leaves: the sender's record, and the  *)
(* routing reply.                                                          *)
SenderRecorded ==
    /\ last.message.sender_id \in DOMAIN nodes[last.node]
    /\ nodes[last.node][last.message.sender_id].id = last.message.sender_id
    /\ nodes[last.node][last.message.sender_id].last_seen = now
    /\ nodes[last.node][last.message.sender_id].is_active

OneRoutingReply ==
    /\ last.reply # {}
    /\ \A a, b \in last.reply : a.message = b.message
    /\ \A a \in last.reply :
          /\ a.message.type = "routing"
          /\ a.message.sender_id = last.node
          /\ a.message.id # last.message.id

-----------------------------------------------------------------------------
(* The step is the handling of a routing message by its kind handler. *)
RoutingStep ==
    /\ last'.op = "receive"
    /\ last'.event = "dispatched"
    /\ last'.message.type = "routing"

(* The ids a routing message lists, its receiver's own id left out. *)
ListedOthers(message, n) == { d.id : d \in { e \in message.content.nodes : e.id # n } }

-----------------------------------------------------------------------------
(* The last step originated last.message: start, a maintenance cycle, or a *)
(* call of send_text_message / send_voice_data.                            *)
Originates == last.op \in {"start", "maintain", "send_text", "send_voice"}

(* Every id the node holds or that travels on the network. *)
KnownIds ==
    UNION { processed_messages[n] \cup dispatched[n] : n \in NodeIds }
       \cup { Inner(d.data).id : d \in network }

OriginatedRight ==
    /\ Originates =>
          /\ last.message.sender_id = last.node
          /\ \A a \in last.reply : a.message = last.message
          /\ last.op \in {"start", "maintain"} =>
                /\ last.message.type = "discovery"
                /\ last.message.recipient_id = "broadcast"
                /\ last.message.ttl = 3
          /\ last.op = "send_text" => last.message.type = "text" /\ last.message.ttl = 3
          /\ last.op = "send_voice" => last.message.type = "voice" /\ last.message.ttl = 1
    /\ Receives =>
          \A a \in last.reply :
             /\ a.message.type = "routing"
             /\ a.message.sender_id = last.node
             /\ a.message.recipient_id = "broadcast"
             /\ a.message.ttl = 2

(* C32: every message a node originates carries a fresh id, the node's own *)
(* id as sender_id and the hop budget of its kind (discovery 3 and routing *)
(* 2, both to "broadcast"; text 3; voice 1), and it is sent with that ttl, *)
(* not a decremented one.                                                  *)
OriginatedWellFormed ==
    [][ /\ OriginatedRight'
        /\ Originates' => last'.message.id \notin KnownIds
        /\ last'.op = "receive" =>
              \A a \in last'.reply :
                 a.message.id \notin KnownIds \cup {last'.message.id} ]_vars

(* A voice message sent to a peer with ttl 1 under the node's own id. *)
OriginatedWellFormedWitness ==
    /\ last.op = "send_voice"
    /\ \E a \in last.reply : a.ok /\ a.message.ttl = 1 /\ a.message.sender_id = Self
    /\ last.message.id \in 1..MaxIds

-----------------------------------------------------------------------------
(* C33: periodic maintenance: every cycle of the maintenance thread marks  *)
(* the stale peers, emits a discovery message and cleans the dedup set,    *)
(* whatever the other threads do meanwhile: the thread comes back to the   *)
(* test of its loop only from the sleep that follows the clean-up.         *)
MaintenancePeriodic ==
    [][ (maintenance_thread.pc # "loop" /\ maintenance_thread'.pc = "loop") =>
            maintenance_thread.pc \in {"new", "sleep"} ]_vars

-----------------------------------------------------------------------------
(* _handle_message statement by statement.  The thread holds the datagram  *)
(* it has read together with what the method will make of it.              *)

(* A handler that does not record the id before it dispatches. *)
DedupInsertSkipped(seen, id) == seen

(* line 160: self.processed_messages.add(message.id) *)
DedupInsert(seen, id) == seen \cup {id}

Held == CHOOSE h \in receiver_thread.todo : TRUE

OrderFrame ==
    /\ UNCHANGED <<running, socket_open, maintenance_thread, mesh_relay_started,
                   calls, seen_at>>
    /\ UNCHANGED <<configVars, cryptoVars, voiceVars>>

Observed(h, event, deliver, reply, relay) ==
    [node |-> Self, op |-> "receive", event |-> event, message |-> h.message,
     again |-> FALSE, deliver |-> deliver, reply |-> reply, relay |-> relay]

(* lines 141-154: recvfrom, decrypt_message, json.loads, Message(...) *)
ord_read ==
    /\ receiver_thread.pc = "recvfrom"
    /\ Ready
    /\ started[Self]
    /\ \E d \in ExoDatagrams : \E draw \in ReplyDraws(Self, d.data) :
          receiver_thread' =
             [receiver_thread EXCEPT !.pc = "dedup",
                 !.todo = {_handle_message(Self, nodes[Self], processed_messages[Self],
                                           d.data, d.addr, now, draw[1],
                                           batman_available[Self], draw[2])}]
    /\ UNCHANGED relayVars
    /\ OrderFrame

(* lines 156-160: the dedup test and the insertion of the id; a datagram   *)
(* that did not decode never gets here (except, line 175).                 *)
ord_dedup ==
    /\ receiver_thread.pc = "dedup"
    /\ IF Held.event \in {"decrypt_error", "decode_error", "duplicate"}
       THEN /\ receiver_thread' = [receiver_thread EXCEPT !.pc = "loop", !.todo = {}]
            /\ last' = Observed(Held, Held.event, FALSE, {}, {})
            /\ UNCHANGED processed_messages
       ELSE /\ receiver_thread' = [receiver_thread EXCEPT !.pc = "dispatch"]
            /\ processed_messages' =
                  [processed_messages EXCEPT ![Self] = DedupInsert(@, Held.message.id)]
            /\ UNCHANGED last
    /\ UNCHANGED <<hosts, batman_available, nodes, started, sleeping, now, network,
                   dispatched, flood>>
    /\ OrderFrame

(* lines 163-168: the handler of the kind, with the routing reply of a     *)
(* discovery; when it raises, the relay below is skipped.                  *)
ord_dispatch ==
    /\ receiver_thread.pc = "dispatch"
    /\ nodes' = [nodes EXCEPT ![Self] = Held.nodes]
    /\ processed_messages' =
          [processed_messages EXCEPT ![Self] = @ \cup (Held.processed \ {Held.message.id})]
    /\ dispatched' = [dispatched EXCEPT ![Self] = @ \cup {Held.message.id}]
    /\ network' = network \cup Sent(Held.reply)
    /\ last' = Observed(Held, IF Held.event = "handler_error" THEN "handler_error"
                              ELSE "handling",
                        Held.deliver, Obs(Held.reply), {})
    /\ receiver_thread' =
          IF Held.event = "handler_error"
          THEN [receiver_thread EXCEPT !.pc = "loop", !.todo = {}]
          ELSE [receiver_thread EXCEPT !.pc = "forward"]
    /\ UNCHANGED <<hosts, batman_available, started, sleeping, now, flood>>
    /\ OrderFrame

(* lines 171-173: if message.ttl > 0: message.ttl -= 1; _relay_message *)
ord_forward ==
    /\ receiver_thread.pc = "forward"
    /\ network' = network \cup Sent(Held.relay)
    /\ last' = Observed(Held, "dispatched", Held.deliver, Obs(Held.reply), Obs(Held.relay))
    /\ receiver_thread' = [receiver_thread EXCEPT !.pc = "loop", !.todo = {}]
    /\ UNCHANGED <<hosts, batman_available, nodes, processed_messages, started,
                   sleeping, now, dispatched, flood>>
    /\ OrderFrame

OrderNext ==
    \/ call_start("api")
    \/ start_receiver("api")
    \/ start_maintenance("api")
    \/ start_discovery("api")
    \/ rx_check
    \/ ord_read
    \/ ord_dedup
    \/ ord_dispatch
    \/ ord_forward
    \/ Forget

SpecOrder == Init /\ [][OrderNext]_vars

(* The step is the kind handler's: the table changes, a reply goes out or  *)
(* the message is delivered.                                               *)
KindHandling ==
    /\ last'.op = "receive"
    /\ last' # last
    /\ \/ nodes'[Self] # nodes[Self]
       \/ last'.reply # {}
       \/ last'.deliver

(* The step forwards the held message. *)
Forwarding == last'.op = "receive" /\ last' # last /\ last'.relay # {}

(* C34: in the receive thread the steps for one datagram are ordered: the  *)
(* id is in the dedup set before the kind handler does anything; the kind  *)
(* handler has finished (table written, reply sent, delivery made) before  *)
(* the message is forwarded, and it is forwarded with ttl - 1; and a       *)
(* datagram is read only when the one before is done with.                 *)
ReceiveOrdered ==
    [][ /\ KindHandling /\ ~Forwarding =>
              /\ receiver_thread.todo # {}
              /\ Held.message.id \in processed_messages[Self]
        /\ Forwarding =>
              /\ receiver_thread.todo # {}
              /\ Held.message.id \in processed_messages[Self]
              /\ Held.message.id \in dispatched[Self]
              /\ nodes[Self] = Held.nodes
              /\ Held.processed \subseteq processed_messages[Self]
              /\ Sent(Held.reply) \subseteq network
              /\ \A a \in last'.relay : a.message.ttl = Held.message.ttl - 1
        /\ (receiver_thread'.todo # {} /\ receiver_thread'.todo # receiver_thread.todo) =>
              receiver_thread.todo = {} ]_vars

(* A text broadcast was delivered and then forwarded to a peer with its   *)
(* ttl one lower.                                                          *)
ReceiveOrderedWitness ==
    /\ Dispatches
    /\ last.deliver
    /\ \E a \in last.relay : a.ok /\ a.message.ttl = last.message.ttl - 1
    /\ last.message.id \in processed_messages[Self] \cap dispatched[Self]
    /\ receiver_thread.pc = "loop"
    /\ receiver_thread.todo = {}

-----------------------------------------------------------------------------
(* The step is a call of send_text_message or send_voice_data. *)
SendStep == last'.op \in {"send_text", "send_voice"}

(* The active peers of the caller's table, the node itself left out. *)
ActivePeersOf(n) == { p \in DOMAIN nodes[n] : nodes[n][p].is_active } \ {n}

-----------------------------------------------------------------------------
(* C36: the dedup clean-up keeps the last 5 minutes: a maintenance cycle   *)
(* never removes from the dedup set an id that was added less than 300 s   *)
(* before, whatever the text of the id.                                    *)
RecentIdsKept ==
    [][ (last'.op = "maintain" /\ last'.node = Self) =>
          \A id \in processed_messages[Self] :
              now - seen_at[id] < DEDUP_RETENTION => id \in processed_messages'[Self] ]_vars

-----------------------------------------------------------------------------
(* Three relays on the chain A - B - C; every datagram sent is delivered.  *)
(* Once the chain is up and nothing is in flight, node A runs its          *)
(* maintenance cycle or its caller sends text or voice.  What A sends      *)
(* reaches C only through the relay B.                                     *)

Calm == Chain /\ network = {}

HopsNext ==
    \/ \E n \in NodeIds : Start(n)
    \/ \E l \in Links : ~Chain /\ Introduce(l[1], l[2])
    \/ Calm /\ Maintain("A")
    \/ Calm /\ send_text_message("A")
    \/ Calm /\ send_voice_data("A")
    \/ \E n \in NodeIds : ReceiveNet(n)
    \/ Forget

SpecHops == MeshInit /\ [][HopsNext]_vars

(* C37: every entry of a node's peer table holds the address and the port  *)
(* where the node named by its key listens.                                *)
PeersPointHome ==
    \A n \in NodeIds : \A p \in DOMAIN nodes[n] :
        /\ nodes[n][p].address = AddrOf(p)
        /\ nodes[n][p].port = PORT

-----------------------------------------------------------------------------
(* The chain A - B - C once it is up: A runs its maintenance cycle, whose  *)
(* discovery floods the mesh and triggers the routing replies of B and C.  *)

FloodNext ==
    \/ \E n \in NodeIds : Start(n)
    \/ \E l \in Links : ~Chain /\ Introduce(l[1], l[2])
    \/ Calm /\ Maintain("A")
    \/ \E n \in NodeIds : ReceiveNet(n)
    \/ Forget

(* A relay is waiting to be started, or a started relay has a datagram on  *)
(* its socket and its receive thread is free to take it.                   *)
Pending ==
    /\ Ready
    /\ \/ \E n \in NodeIds : ~started[n]
       \/ \E d \in network : \E n \in NodeIds :
              started[n] /\ d.addr = AddrOf(n) /\ d.port = PORT

(* A relay is started or a datagram is taken off a socket. *)
Progress == started' # started \/ \E d \in network : d \notin network'

(* Strong fairness of start() and of the receive threads, with the         *)
(* enabling condition written out: if again and again something is         *)
(* pending, then again and again a relay starts or a datagram is taken.    *)
SpecFlood ==
    /\ MeshInit
    /\ [][FloodNext]_vars
    /\ WF_vars(Forget)
    /\ (<>[]~Pending \/ []<><<Progress>>_vars)

-----------------------------------------------------------------------------
(* The ttl a message of each kind is originated with. *)
InitialTtl(type) ==
    CASE type = "voice" -> VOICE_TTL
      [] type = "routing" -> ROUTING_TTL
      [] OTHER -> DEFAULT_TTL

(* The number of sends the copy in datagram d has been through: every      *)
(* relay lowers ttl by one.                                                *)
Hops(d) == InitialTtl(Inner(d.data).type) - Inner(d.data).ttl + 1

(* C39: a copy of a message originated with ttl t is on hop 1..t of its    *)
(* path; a copy sent by a node other than the originator is past hop 1;    *)
(* a voice message is only ever sent by its originator, and the node that  *)
(* receives it forwards it to nobody.                                      *)
HopBound ==
    /\ \A d \in network :
          /\ Hops(d) \in 1..InitialTtl(Inner(d.data).type)
          /\ d.src # AddrOf(Inner(d.data).sender_id) => Hops(d) > 1
          /\ Inner(d.data).type = "voice" => d.src = AddrOf(Inner(d.data).sender_id)
    /\ (last.op = "receive" /\ last.event = "dispatched") =>
          /\ last.message.ttl >= 1
          /\ last.message.type = "voice" => last.relay = {}

(* B, with C as an active peer, is delivered a voice message of A and      *)
(* forwards it to nobody.                                                  *)
HopBoundWitness ==
    /\ last.op = "receive"
    /\ last.node = "B"
    /\ last.event = "dispatched"
    /\ last.message.type = "voice"
    /\ last.message.sender_id = "A"
    /\ last.deliver
    /\ last.relay = {}
    /\ "C" \in DOMAIN nodes["B"]
    /\ nodes["B"]["C"].is_active

-----------------------------------------------------------------------------
(* C40: a message that decodes, is no duplicate and arrives with ttl > 1   *)
(* is forwarded to the relay targets of the node whether or not its kind   *)
(* handler succeeds, and the id of a message whose handler failed and that *)
(* was not relayed is not left in processed_messages.                      *)
RelayRegardless ==
    /\ ( /\ last.op = "receive"
         /\ last.event \in {"dispatched", "handler_error"}
         /\ last.message.ttl > 1 ) =>
           PeersOf(last.relay) = RelayTargets(last.node, nodes[last.node], last.message)
    /\ ( /\ last.op = "receive"
         /\ last.event = "handler_error"
         /\ last.relay = {} ) =>
           last.message.id \notin processed_messages[last.node]
=============================================================================
